---------------------------- MODULE Spec2Model ----------------------------
(***************************************************************************)
(* The constant-product AMM routing engine of Ally: the pricing arithmetic *)
(* of math.ts (src/unnamed/part_008), the HumbleAdapter and PactAdapter    *)
(* (src/unnamed/part_008) and Router.getBestQuote (src/unnamed/part_009).  *)
(*                                                                         *)
(* Numbers.  Amounts and reserves are base-unit integer strings in the     *)
(* code.  Pricing works here on naturals that stay below 2^31.  A fee      *)
(* percentage feePct is held as the integer feePct*10 (3 stands for 0.3),  *)
(* the only form in which the code reads it (1000 - feePct * 10).          *)
(* A Big (big.js) value is [ip, fd]: integer part and fractional digits.   *)
(***************************************************************************)
EXTENDS Integers, Sequences, FiniteSets, TLC

VARIABLES
    mockData,   \* per adapter: the pool list its mock data file holds
    readable,   \* per adapter: whether reading and parsing that file succeeds
    pools,      \* per adapter: its private field this.pools
    call,       \* the arguments of the last getBestQuote call
    log,        \* the adapters that warned 'Failed to load ...' in that call
    fetched,    \* the local `allPools` of that call
    routes,     \* the local `routes` of the last getBestQuote call
    result,     \* what the last getBestQuote call returned or threw
    calc,       \* the last direct call of a math.ts function and its outcome
    reply,      \* the last GET /api/quote request and the reply sent to it
    ui          \* the web page: React state of App, SwapInterface and
                \* WalletConnectModal, the debounce timer, the calls awaited

vars ==
    <<mockData, readable, pools, call, log, fetched, routes, result, calc, reply,
      ui>>

---------------------------------------------------------------------------
(* Outcomes of a call: a returned value or a thrown Error.                 *)

Ok(v) == [ok |-> TRUE, val |-> v, err |-> ""]

Throw(msg) == [ok |-> FALSE, val |-> 0, err |-> msg]

DIV_BY_ZERO == "[big.js] Division by zero"

NO_ROUTES == "No routes found"

None == [kind |-> "none"]

---------------------------------------------------------------------------
(* big.js as configured by math.ts                                         *)

\* Big.DP = 18: decimal places kept by div
DP == 18

\* Big.RM = Big.roundHalfUp: the digit after the last kept one decides
RoundsUp(nextDigit) == nextDigit >= 5

RECURSIVE FracDigits(_, _, _)
\* the first k fractional digits of r/d, for 0 <= r < d
FracDigits(r, d, k) ==
    IF k = 0 THEN <<>>
    ELSE <<(r * 10) \div d>> \o FracDigits((r * 10) % d, d, k - 1)

RECURSIVE IncDigits(_)
\* adds one unit in the last place of a digit sequence
IncDigits(s) ==
    IF s = <<>> THEN [digits |-> <<>>, carry |-> 1]
    ELSE LET n == Len(s)
         IN  IF s[n] < 9
             THEN [digits |-> SubSeq(s, 1, n - 1) \o <<s[n] + 1>>, carry |-> 0]
             ELSE LET r == IncDigits(SubSeq(s, 1, n - 1))
                  IN  [digits |-> r.digits \o <<0>>, carry |-> r.carry]

\* big.js round(x, dp, Big.RM): x has more than dp fractional digits
BigRound(ip, digits, dp) ==
    LET kept == SubSeq(digits, 1, dp)
    IN  IF RoundsUp(digits[dp + 1])
        THEN LET r == IncDigits(kept)
             IN  [ip |-> ip + r.carry, fd |-> r.digits]
        ELSE [ip |-> ip, fd |-> kept]

\* Big n/d for naturals n, d with d > 0: DP + 1 digits, rounded to DP
BigDiv(n, d) == BigRound(n \div d, FracDigits(n % d, d, DP + 1), DP)

\* x.toFixed(0)
ToFixed0(x) == BigRound(x.ip, x.fd \o <<0>>, 0).ip

---------------------------------------------------------------------------
(* math.ts: getAmountOut                                                   *)

Abs(n) == IF n < 0 THEN -n ELSE n

\* the forgotten mul(1000): the denominator reserveIn + amountInWithFee
GetAmountOut_NoMul1000(amountIn, reserveIn, reserveOut, feePct) ==
    LET feeMultiplier == 1000 - feePct
        numerator     == amountIn * feeMultiplier * reserveOut
        denominator   == reserveIn * 1000 + amountIn * feeMultiplier
    IN  IF denominator = 0 THEN Throw(DIV_BY_ZERO)
        ELSE Ok(ToFixed0(BigDiv(numerator, denominator)))

\* a guard that refuses a zero amount
GetAmountOut_RejectZero(amountIn, reserveIn, reserveOut, feePct) ==
    LET feeMultiplier == 1000 - feePct
        numerator     == amountIn * feeMultiplier * reserveOut
        denominator   == reserveIn * 1000 * 1000 + amountIn * feeMultiplier
    IN  IF amountIn = 0 \/ denominator = 0 THEN Throw(DIV_BY_ZERO)
        ELSE Ok(ToFixed0(BigDiv(numerator, denominator)))

\* feeMultiplier, numerator and denominator are held times 1000, so that
\* numerator/denominator is the quotient the code divides.  div and
\* toFixed(0) round the magnitude; '-0' is held as 0.
GetAmountOut(amountIn, reserveIn, reserveOut, feePct) ==
    LET feeMultiplier == 1000 - feePct
        numerator     == amountIn * feeMultiplier * reserveOut
        denominator   == reserveIn * 1000 * 1000 + amountIn * feeMultiplier
        mag == ToFixed0(BigDiv(Abs(numerator), Abs(denominator)))
    IN  IF denominator = 0 THEN Throw(DIV_BY_ZERO)
        ELSE Ok(IF (numerator < 0) # (denominator < 0) THEN -mag ELSE mag)

---------------------------------------------------------------------------
(* Base-unit integer strings beyond 2^31.  A route's amounts are held as   *)
(* [hi, lo], standing for hi * 10^9 + lo with 0 <= lo < 10^9, so that the  *)
(* strings parseFloat cannot tell apart can be written down.               *)

LimbBase == 10^9

Wide(n) == [hi |-> n \div LimbBase, lo |-> n % LimbBase]

WLess(x, y) == x.hi < y.hi \/ (x.hi = y.hi /\ x.lo < y.lo)

WAdd(x, n) ==
    [hi |-> x.hi + ((x.lo + n) \div LimbBase), lo |-> (x.lo + n) % LimbBase]

WDouble(x) ==
    [hi |-> 2 * x.hi + ((2 * x.lo) \div LimbBase), lo |-> (2 * x.lo) % LimbBase]

WDiv10(x) ==
    [hi |-> x.hi \div 10, lo |-> (x.hi % 10) * (LimbBase \div 10) + x.lo \div 10]

\* 2^53 = 9007199254740992: below it every integer is a double
TwoTo53 == [hi |-> 9007199, lo |-> 254740992]

RECURSIVE UlpFrom(_, _, _)
\* the spacing of the doubles around x >= 2^53: the power of two u with
\* limit = 2^53 * u / 2 <= x < 2^53 * u
UlpFrom(x, limit, u) ==
    IF WLess(x, WDouble(limit)) THEN u ELSE UlpFrom(x, WDouble(limit), 2 * u)

\* parseFloat of a base-unit integer string below 2^60: the nearest double,
\* ties to the even mantissa.  The double is held as the integer it equals.
\* (10^9 is a multiple of every spacing up to 2^9, so rounding x to a
\* multiple of the spacing rounds lo, and an even quotient is an even mantissa.)
ParseFloat(x) ==
    IF WLess(x, TwoTo53) THEN x
    ELSE LET u    == UlpFrom(x, TwoTo53, 2)
             q    == x.lo \div u
             rem  == x.lo % u
             down == [hi |-> x.hi, lo |-> q * u]
             up   == WAdd(down, u)
         IN  IF 2 * rem < u THEN down
             ELSE IF 2 * rem > u THEN up
             ELSE IF q % 2 = 0 THEN down ELSE up

---------------------------------------------------------------------------
(* math.ts: scaleAmount, unscaleAmount.  A decimal string is [mant, scale],*)
(* standing for mant / 10^scale.                                           *)

Dec(m, s) == [mant |-> m, scale |-> s]

\* new Big(amount) on a string that is no number
INVALID_NUMBER == "[big.js] Invalid number"

\* an amount string Big cannot parse, such as 'abc'
NotNumeric == [kind |-> "text"]

\* Big(amount).mul(10^decimals).toFixed(0), for a numeric amount with at
\* most decimals fractional digits when it is negative
ScaleAmount(amount, decimals) ==
    IF amount.scale <= decimals
    THEN amount.mant * 10^(decimals - amount.scale)
    ELSE LET cut == 10^(amount.scale - decimals)
         IN  ToFixed0([ip |-> amount.mant \div cut,
                       fd |-> <<((amount.mant % cut) * 10) \div cut>>])

RECURSIVE Canonical(_, _)
\* toFixed() writes no trailing fractional zeros
Canonical(w, scale) ==
    IF scale > 0 /\ w.lo % 10 = 0 THEN Canonical(WDiv10(w), scale - 1)
    ELSE [mant |-> w, scale |-> scale]

\* Big(amount).div(10^decimals).toFixed(), for decimals <= DP (the quotient
\* then has at most DP fractional digits and div rounds nothing away)
UnscaleAmount(amount, decimals) == Canonical(amount, decimals)

---------------------------------------------------------------------------
(* math.ts: getPriceImpact, calculateTwoHopPriceImpact.  Only whether the  *)
(* computation throws is modelled; a computed percentage is Finite.        *)

Finite == "finite"

IsZero(x) == x.ip = 0 /\ \A i \in 1..Len(x.fd) : x.fd[i] = 0

\* amountOut, then midPrice = reserveOut/reserveIn, actualPrice =
\* amountOut/amountIn, (midPrice - actualPrice)/midPrice: each div throws on
\* a zero divisor
GetPriceImpact(amountIn, reserveIn, reserveOut, feePct) ==
    LET amountOut == GetAmountOut(amountIn, reserveIn, reserveOut, feePct)
    IN  IF ~amountOut.ok THEN amountOut
        ELSE IF reserveIn = 0 THEN Throw(DIV_BY_ZERO)
        ELSE IF amountIn = 0 THEN Throw(DIV_BY_ZERO)
        ELSE IF IsZero(BigDiv(reserveOut, reserveIn)) THEN Throw(DIV_BY_ZERO)
        ELSE Ok(Finite)

\* the second hop left out
CalculateTwoHopAmountOut_FirstHopOnly(amountIn, firstHop, secondHop) ==
    GetAmountOut(amountIn, firstHop.reserveIn, firstHop.reserveOut,
                 firstHop.feePct)

CalculateTwoHopAmountOut(amountIn, firstHop, secondHop) ==
    LET firstHopOut == GetAmountOut(amountIn, firstHop.reserveIn,
                                    firstHop.reserveOut, firstHop.feePct)
    IN  IF ~firstHopOut.ok THEN firstHopOut
        ELSE GetAmountOut(firstHopOut.val, secondHop.reserveIn,
                          secondHop.reserveOut, secondHop.feePct)

\* effectiveMidPrice = firstHopMidPrice.mul(secondHopMidPrice) is exact, so
\* it is zero when one of the two is
CalculateTwoHopPriceImpact(amountIn, firstHop, secondHop) ==
    LET amountOut == CalculateTwoHopAmountOut(amountIn, firstHop, secondHop)
    IN  IF ~amountOut.ok THEN amountOut
        ELSE IF firstHop.reserveIn = 0 THEN Throw(DIV_BY_ZERO)
        ELSE IF secondHop.reserveIn = 0 THEN Throw(DIV_BY_ZERO)
        ELSE IF amountIn = 0 THEN Throw(DIV_BY_ZERO)
        ELSE IF \/ IsZero(BigDiv(firstHop.reserveOut, firstHop.reserveIn))
                \/ IsZero(BigDiv(secondHop.reserveOut, secondHop.reserveIn))
             THEN Throw(DIV_BY_ZERO)
        ELSE Ok(Finite)

---------------------------------------------------------------------------
(* adapters/humble.ts, adapters/pact.ts: the two classes differ in name    *)
(* and mock data path only.                                                *)

\* Router constructor: [new HumbleAdapter(), new PactAdapter()]
adapters == <<"HUMBLE", "PACT">>

\* Router.commonTokens
commonTokens == <<"VOI", "USDC">>

Null == [kind |-> "null"]

\* fetchPools: the list returned, the new this.pools and whether the catch
\* block warned; `data` is what the mock data file holds, `ok` whether
\* readFileSync and JSON.parse succeed
\* a catch block that answers with the pools of the last successful read
FetchPools_Stale(adapter, data, ok, cached) ==
    IF ok THEN [ret |-> data, pools |-> data, warn |-> FALSE]
    ELSE [ret |-> cached, pools |-> cached, warn |-> TRUE]

FetchPools(adapter, data, ok, cached) ==
    IF ok THEN [ret |-> data, pools |-> data, warn |-> FALSE]
    ELSE [ret |-> <<>>, pools |-> cached, warn |-> TRUE]

Matches(pool, from, to) ==
    \/ (pool.tokenA = from /\ pool.tokenB = to)
    \/ (pool.tokenA = to /\ pool.tokenB = from)

RECURSIVE FindFrom(_, _, _, _)
FindFrom(ps, i, from, to) ==
    IF i > Len(ps) THEN Null
    ELSE IF Matches(ps[i], from, to) THEN ps[i]
    ELSE FindFrom(ps, i + 1, from, to)

\* pools.find(...) || null
FindDirectPool(from, to, ps) == FindFrom(ps, 1, from, to)

---------------------------------------------------------------------------
(* router.ts                                                               *)

\* reserveA taken for the input reserve whatever the direction
GetPoolReserves_NoDirection(pool, tokenIn) ==
    [reserveIn |-> pool.reserveA, reserveOut |-> pool.reserveB]

GetPoolReserves(pool, tokenIn) ==
    LET isTokenA == pool.tokenA = tokenIn
    IN  [reserveIn  |-> IF isTokenA THEN pool.reserveA ELSE pool.reserveB,
         reserveOut |-> IF isTokenA THEN pool.reserveB ELSE pool.reserveA]

PoolsOf(allPools, adapter) == SelectSeq(allPools, LAMBDA p : p.dex = adapter)

\* feesEstimated.lpFeePct is held times 20: feePct is held times 10, and a
\* two-hop route reports (firstPool.feePct + secondPool.feePct) / 2
QuoteDirect(adapter, from, to, amountIn, allPools) ==
    LET pool == FindDirectPool(from, to, PoolsOf(allPools, adapter))
    IN  IF pool = Null THEN Ok(Null)
        ELSE IF amountIn = NotNumeric THEN Throw(INVALID_NUMBER)
        ELSE
        LET scaledAmountIn == ScaleAmount(amountIn, 6)
            reserves    == GetPoolReserves(pool, from)
            amountOut   == GetAmountOut(scaledAmountIn, reserves.reserveIn,
                                        reserves.reserveOut, pool.feePct)
            priceImpact == GetPriceImpact(scaledAmountIn, reserves.reserveIn,
                                          reserves.reserveOut, pool.feePct)
        IN  IF ~amountOut.ok THEN amountOut
            ELSE IF ~priceImpact.ok THEN priceImpact
            ELSE Ok([kind |-> "route",
                     steps |-> <<[dex |-> adapter, from |-> from, to |-> to,
                                  poolId |-> pool.id,
                                  amountIn |-> Wide(scaledAmountIn),
                                  amountOut |-> Wide(amountOut.val)]>>,
                     totalAmountOut |-> Wide(amountOut.val),
                     lpFeePct |-> 2 * pool.feePct,
                     routeType |-> "DIRECT"])

\* the pricing both quoteTwoHop and quoteCrossDexTwoHop do once their two
\* pools are found
TwoHopRoute(firstAdapter, secondAdapter, firstPool, secondPool, from, intermediate, to, amountIn) ==
    LET scaledAmountIn == ScaleAmount(amountIn, 6)
        firstReserves  == GetPoolReserves(firstPool, from)
        secondReserves == GetPoolReserves(secondPool, intermediate)
        firstHopOut  == GetAmountOut(scaledAmountIn, firstReserves.reserveIn,
                                     firstReserves.reserveOut, firstPool.feePct)
        secondHopOut == GetAmountOut(firstHopOut.val, secondReserves.reserveIn,
                                     secondReserves.reserveOut, secondPool.feePct)
        priceImpact  == CalculateTwoHopPriceImpact(scaledAmountIn,
                            [reserveIn |-> firstReserves.reserveIn,
                             reserveOut |-> firstReserves.reserveOut,
                             feePct |-> firstPool.feePct],
                            [reserveIn |-> secondReserves.reserveIn,
                             reserveOut |-> secondReserves.reserveOut,
                             feePct |-> secondPool.feePct])
    IN  IF amountIn = NotNumeric THEN Throw(INVALID_NUMBER)
        ELSE IF ~firstHopOut.ok THEN firstHopOut
        ELSE IF ~secondHopOut.ok THEN secondHopOut
        ELSE IF ~priceImpact.ok THEN priceImpact
        ELSE Ok([kind |-> "route",
                 steps |-> <<[dex |-> firstAdapter, from |-> from,
                              to |-> intermediate, poolId |-> firstPool.id,
                              amountIn |-> Wide(scaledAmountIn),
                              amountOut |-> Wide(firstHopOut.val)],
                             [dex |-> secondAdapter, from |-> intermediate,
                              to |-> to, poolId |-> secondPool.id,
                              amountIn |-> Wide(firstHopOut.val),
                              amountOut |-> Wide(secondHopOut.val)]>>,
                 totalAmountOut |-> Wide(secondHopOut.val),
                 lpFeePct |-> firstPool.feePct + secondPool.feePct,
                 routeType |-> "TWO_HOP"])

RECURSIVE TwoHopFrom(_, _, _, _, _, _)
\* for (const adapter of this.adapters): continue without both pools,
\* return at the first adapter that has both
TwoHopFrom(i, from, intermediate, to, amountIn, allPools) ==
    IF i > Len(adapters) THEN Ok(Null)
    ELSE LET ps         == PoolsOf(allPools, adapters[i])
             firstPool  == FindDirectPool(from, intermediate, ps)
             secondPool == FindDirectPool(intermediate, to, ps)
         IN  IF firstPool = Null \/ secondPool = Null
             THEN TwoHopFrom(i + 1, from, intermediate, to, amountIn, allPools)
             ELSE TwoHopRoute(adapters[i], adapters[i], firstPool, secondPool,
                              from, intermediate, to, amountIn)

QuoteTwoHop(from, intermediate, to, amountIn, allPools) ==
    TwoHopFrom(1, from, intermediate, to, amountIn, allPools)

RECURSIVE CrossDexFrom(_, _, _, _, _, _, _)
\* the nested loops over i and j: continue when i = j or a pool is missing,
\* return at the first pair that has both
CrossDexFrom(i, j, from, intermediate, to, amountIn, allPools) ==
    IF i > Len(adapters) THEN Ok(Null)
    ELSE IF j > Len(adapters)
    THEN CrossDexFrom(i + 1, 1, from, intermediate, to, amountIn, allPools)
    ELSE LET firstPool  == FindDirectPool(from, intermediate,
                                          PoolsOf(allPools, adapters[i]))
             secondPool == FindDirectPool(intermediate, to,
                                          PoolsOf(allPools, adapters[j]))
         IN  IF i = j \/ firstPool = Null \/ secondPool = Null
             THEN CrossDexFrom(i, j + 1, from, intermediate, to, amountIn, allPools)
             ELSE TwoHopRoute(adapters[i], adapters[j], firstPool, secondPool,
                              from, intermediate, to, amountIn)

QuoteCrossDexTwoHop(from, intermediate, to, amountIn, allPools) ==
    CrossDexFrom(1, 1, from, intermediate, to, amountIn, allPools)


RECURSIVE Dedup(_)
\* [...new Set(seq)]: first occurrences, in order
Dedup(seq) ==
    IF seq = <<>> THEN <<>>
    ELSE LET init == Dedup(SubSeq(seq, 1, Len(seq) - 1))
             last == seq[Len(seq)]
         IN  IF \E k \in 1..Len(init) : init[k] = last THEN init
             ELSE Append(init, last)

\* the label `${dex} Direct`, `${dex} Two-Hop` or `Cross-DEX (${a} -> ${b})`
\* is held as its form and the DEX names in it
GetRouteLabel(route) ==
    IF route.routeType = "DIRECT"
    THEN [form |-> "Direct", dexes |-> <<route.steps[1].dex>>]
    ELSE LET dexes == Dedup([k \in 1..Len(route.steps) |-> route.steps[k].dex])
         IN  IF Len(dexes) = 1 THEN [form |-> "Two-Hop", dexes |-> dexes]
             ELSE [form |-> "Cross-DEX", dexes |-> dexes]

\* parseFloat(current.totalAmountOut) > parseFloat(best.totalAmountOut)
BetterRoute(current, best) ==
    WLess(ParseFloat(best.totalAmountOut), ParseFloat(current.totalAmountOut))

RECURSIVE Reduce(_, _)
\* routes.reduce((best, current) => better ? current : best), no initial value
Reduce(rs, n) ==
    IF n = 1 THEN rs[1]
    ELSE LET best == Reduce(rs, n - 1)
         IN  IF BetterRoute(rs[n], best) THEN rs[n] ELSE best

\* router.ts lines 68-99: from the priced routes to the Quote or the throw.
\* priceImpactPct, the warnings and timestamp are not carried.
BuildQuote(amountIn, rs) ==
    IF Len(rs) = 0 THEN [kind |-> "error", message |-> NO_ROUTES]
    ELSE LET bestRoute == Reduce(rs, Len(rs))
         IN  [kind |-> "quote",
              amountIn |-> amountIn,
              amountOut |-> UnscaleAmount(bestRoute.totalAmountOut, 6),
              path |-> [k \in 1..Len(bestRoute.steps) |->
                          [dex |-> bestRoute.steps[k].dex,
                           from |-> bestRoute.steps[k].from,
                           to |-> bestRoute.steps[k].to,
                           poolId |-> bestRoute.steps[k].poolId]],
              lpFeePct |-> bestRoute.lpFeePct,
              routeType |-> bestRoute.routeType,
              comparedRoutes |-> [k \in 1..Len(rs) |->
                          [label |-> GetRouteLabel(rs[k]),
                           amountOut |-> UnscaleAmount(rs[k].totalAmountOut, 6),
                           routeType |-> rs[k].routeType]]]

RECURSIVE FetchAll(_, _, _, _)
\* for (const adapter of this.adapters) allPools.push(...await fetchPools([]))
FetchAll(i, data, ok, cached) ==
    IF i > Len(adapters) THEN [allPools |-> <<>>, pools |-> cached, log |-> {}]
    ELSE LET a    == adapters[i]
             f    == FetchPools(a, data[a], ok[a], cached[a])
             rest == FetchAll(i + 1, data, ok, cached)
         IN  [allPools |-> f.ret \o rest.allPools,
              pools    |-> [rest.pools EXCEPT ![a] = f.pools],
              log      |-> IF f.warn THEN rest.log \cup {a} ELSE rest.log]

\* the intermediate tokens either loop does not skip
Intermediates(from, to) ==
    SelectSeq(commonTokens, LAMBDA t : ~(t = from \/ t = to))

\* the quote calls of the three loops, in the order they are made
Attempts(from, to, amountIn, allPools) ==
    LET mids == Intermediates(from, to)
    IN  [i \in 1..Len(adapters) |->
            QuoteDirect(adapters[i], from, to, amountIn, allPools)]
        \o [k \in 1..Len(mids) |->
            QuoteTwoHop(from, mids[k], to, amountIn, allPools)]
        \o [k \in 1..Len(mids) |->
            QuoteCrossDexTwoHop(from, mids[k], to, amountIn, allPools)]

RECURSIVE Collect(_, _, _)
\* routes.push of each non-null route; the first throw ends the call
Collect(attempts, k, acc) ==
    IF k > Len(attempts) THEN [routes |-> acc, thrown |-> ""]
    ELSE IF ~attempts[k].ok THEN [routes |-> acc, thrown |-> attempts[k].err]
    ELSE IF attempts[k].val = Null THEN Collect(attempts, k + 1, acc)
    ELSE Collect(attempts, k + 1, Append(acc, attempts[k].val))

\* applySlippage: amountOut * (10000 - slippageBps) / 10000, toFixed(0)
ApplySlippage(amountOut, slippageBps) ==
    ToFixed0(BigDiv(amountOut * (10000 - slippageBps), 10000))

\* every route's output reduced by the slippage before the best is chosen
QuoteOver_Slipped(from, to, amountIn, slippageBps, allPools) ==
    LET c  == Collect(Attempts(from, to, amountIn, allPools), 1, <<>>)
        rs == [k \in 1..Len(c.routes) |->
                 [c.routes[k] EXCEPT !.totalAmountOut =
                     Wide(ApplySlippage(@.lo, slippageBps))]]
    IN  [routes |-> c.routes,
         result |-> IF c.thrown # "" THEN [kind |-> "error", message |-> c.thrown]
                    ELSE BuildQuote(amountIn, rs)]

\* getBestQuote over the pools fetched: the routes and what is returned or
\* thrown.  slippageBps is not read.
QuoteOver(from, to, amountIn, slippageBps, allPools) ==
    LET c == Collect(Attempts(from, to, amountIn, allPools), 1, <<>>)
    IN  [routes |-> c.routes,
         result |-> IF c.thrown # "" THEN [kind |-> "error", message |-> c.thrown]
                    ELSE BuildQuote(amountIn, c.routes)]

---------------------------------------------------------------------------
(* The pools the mock data files may hold, and the calls made.             *)

Pool(id, dex, tokenA, tokenB, reserveA, reserveB, feePct) ==
    [id |-> id, dex |-> dex, tokenA |-> tokenA, tokenB |-> tokenB,
     reserveA |-> reserveA, reserveB |-> reserveB, feePct |-> feePct]

\* the deep side of a pool, in base units
Deep == 200

\* the shallow side of a pool, in base units
Shallow == 1

\* each file holds at most one pool per pair; <<>> is the pair left out.
\* One pool has an empty VOI side: reserveIn from VOI, reserveOut to VOI.
HumbleVoiUsdc ==
    {<<>>, <<Pool("h-voi-usdc", "HUMBLE", "VOI", "USDC", Shallow + 1, Deep, 3)>>,
           <<Pool("h-voi-usdc", "HUMBLE", "VOI", "USDC", 0, Deep, 3)>>}

HumbleUsdcBuidl ==
    {<<Pool("h-usdc-buidl", "HUMBLE", "USDC", "BUIDL", Shallow, Deep, 3)>>}

HumbleVoiBuidl ==
    {<<>>, <<Pool("h-voi-buidl", "HUMBLE", "VOI", "BUIDL", Shallow + 1, 20, 3)>>}

PactVoiUsdc ==
    {<<>>, <<Pool("p-voi-usdc", "PACT", "VOI", "USDC", Shallow, Deep, 3)>>}

PactUsdcBuidl ==
    {<<>>, <<Pool("p-usdc-buidl", "PACT", "USDC", "BUIDL", Shallow, Deep - 40, 10)>>}

PactVoiBuidl ==
    {<<>>, <<Pool("p-voi-buidl", "PACT", "BUIDL", "VOI", 20, Shallow + 1, 3)>>}

MockFiles ==
    { [HUMBLE |-> a \o b \o c, PACT |-> d \o e \o f] :
        a \in HumbleVoiUsdc, b \in HumbleUsdcBuidl, c \in HumbleVoiBuidl,
        d \in PactVoiUsdc, e \in PactUsdcBuidl, f \in PactVoiBuidl }

AdapterNames == {adapters[i] : i \in 1..Len(adapters)}

\* the (from, to) pairs asked for
Pairs == {<<"VOI", "BUIDL">>, <<"VOI", "USDC">>, <<"USDC", "BUIDL">>,
          <<"BUIDL", "VOI">>}

\* amountIn: "0" and "0.001"
AmountsIn == {Dec(0, 0), Dec(1, 3)}

SlippageValues == {50}

---------------------------------------------------------------------------
(* The router and its two adapters                                         *)

Init ==
    /\ mockData \in MockFiles
    /\ readable = [a \in AdapterNames |-> TRUE]
    /\ pools = [a \in AdapterNames |-> <<>>]
    /\ call = None
    /\ log = {}
    /\ fetched = <<>>
    /\ routes = <<>>
    /\ result = None
    /\ calc = None
    /\ reply = None
    /\ ui = None

\* what one call of Router.getBestQuote does to the router and its adapters
RouterCall(from, to, amountIn, slippageBps) ==
    LET f == FetchAll(1, mockData, readable, pools)
        q == QuoteOver(from, to, amountIn, slippageBps, f.allPools)
    IN  /\ pools' = f.pools
        /\ log' = f.log
        /\ fetched' = f.allPools
        /\ call' = [kind |-> "call", from |-> from, to |-> to,
                    amountIn |-> amountIn, slippageBps |-> slippageBps]
        /\ routes' = q.routes
        /\ result' = q.result

\* one call of Router.getBestQuote
GetBestQuote(from, to, amountIn, slippageBps) ==
    /\ RouterCall(from, to, amountIn, slippageBps)
    /\ UNCHANGED <<mockData, readable, calc, reply, ui>>

\* the environment: a mock data file becomes unreadable, or readable again
SetReadable(a) ==
    /\ readable' = [readable EXCEPT ![a] = ~readable[a]]
    /\ UNCHANGED <<mockData, pools, call, log, fetched, routes, result, calc,
                   reply, ui>>

Next ==
    \/ \E pr \in Pairs, amountIn \in AmountsIn, slippageBps \in SlippageValues :
          GetBestQuote(pr[1], pr[2], amountIn, slippageBps)
    \/ \E a \in AdapterNames : SetReadable(a)

Spec == Init /\ [][Next]_vars

---------------------------------------------------------------------------
(* math.ts called directly: getAmountOut over a grid of arguments.         *)
(* feePct ranges over percentages whose tenfold is an integer.             *)

\* amounts 0..MaxFineAmount
MaxFineAmount == 3

\* and the amounts 250, 500, ..., 250 * MaxAmountK
MaxAmountK == 4

\* reserves 0..MaxFineReserve
MaxFineReserve == 3

\* and the reserves 40, 80, ..., 40 * MaxReserveK
MaxReserveK == 4

MathAmounts == (0..MaxFineAmount) \cup {250 * k : k \in 1..MaxAmountK}

MathReserves == (0..MaxFineReserve) \cup {40 * k : k \in 1..MaxReserveK}

\* feePct 0, 0.3, 1 and 100
MathFees == {0, 3, 10, 1000}

InitMath ==
    /\ mockData = [a \in AdapterNames |-> <<>>]
    /\ readable = [a \in AdapterNames |-> TRUE]
    /\ pools = [a \in AdapterNames |-> <<>>]
    /\ call = None
    /\ log = {}
    /\ fetched = <<>>
    /\ routes = <<>>
    /\ result = None
    /\ calc = None
    /\ reply = None
    /\ ui = None

\* the call getAmountOut(amountIn, reserveIn, reserveOut, feePct) of a run
CalcGetAmountOut(amountIn, reserveIn, reserveOut, feePct) ==
    /\ calc = None
    /\ calc' = [fn |-> "getAmountOut", amountIn |-> amountIn,
                reserveIn |-> reserveIn, reserveOut |-> reserveOut,
                feePct |-> feePct,
                out |-> GetAmountOut(amountIn, reserveIn, reserveOut, feePct)]
    /\ UNCHANGED <<mockData, readable, pools, call, log, fetched, routes, result,
                   reply, ui>>

NextMath ==
    \E amountIn \in MathAmounts, reserveIn \in MathReserves,
       reserveOut \in MathReserves, feePct \in MathFees :
          CalcGetAmountOut(amountIn, reserveIn, reserveOut, feePct)

SpecMath == InitMath /\ [][NextMath]_vars

---------------------------------------------------------------------------
(* router.ts lines 68-99 over priced routes of any magnitude: the routes   *)
(* the three loops have pushed, in their order, for getBestQuote('VOI',    *)
(* 'BUIDL', '100'), with outputs on both sides of 2^53.                    *)

SelectOutputs ==
    {Wide(7), Wide(18), TwoTo53, WAdd(TwoTo53, 1), WAdd(TwoTo53, 2)}

SelectCall ==
    [kind |-> "call", from |-> "VOI", to |-> "BUIDL",
     amountIn |-> Dec(100, 0), slippageBps |-> 50]

\* what quoteDirect returns for a VOI/BUIDL pool of `dex` that pays `out`
DirectOf(dex, out) ==
    [kind |-> "route",
     steps |-> <<[dex |-> dex, from |-> "VOI", to |-> "BUIDL",
                  poolId |-> "voi-buidl",
                  amountIn |-> Wide(ScaleAmount(SelectCall.amountIn, 6)),
                  amountOut |-> out]>>,
     totalAmountOut |-> out, lpFeePct |-> 6, routeType |-> "DIRECT"]

\* what quoteTwoHop (first = second) or quoteCrossDexTwoHop returns for a
\* route via USDC that pays `out`
TwoHopOf(first, second, out) ==
    [kind |-> "route",
     steps |-> <<[dex |-> first, from |-> "VOI", to |-> "USDC",
                  poolId |-> "voi-usdc",
                  amountIn |-> Wide(ScaleAmount(SelectCall.amountIn, 6)),
                  amountOut |-> out],
                 [dex |-> second, from |-> "USDC", to |-> "BUIDL",
                  poolId |-> "usdc-buidl",
                  amountIn |-> out, amountOut |-> out]>>,
     totalAmountOut |-> out, lpFeePct |-> 6, routeType |-> "TWO_HOP"]

\* a loop pushes its route or nothing
Pushed(rs) == {<<>>} \cup {<<r>> : r \in rs}

PricedRoutes ==
    { a \o b \o c \o d :
        a \in Pushed({DirectOf(adapters[1], o) : o \in SelectOutputs}),
        b \in Pushed({DirectOf(adapters[2], o) : o \in SelectOutputs}),
        c \in Pushed({TwoHopOf(adapters[1], adapters[1], o) : o \in SelectOutputs}),
        d \in Pushed({TwoHopOf(adapters[1], adapters[2], o) : o \in SelectOutputs}) }

InitSelect ==
    /\ mockData = [a \in AdapterNames |-> <<>>]
    /\ readable = [a \in AdapterNames |-> TRUE]
    /\ pools = [a \in AdapterNames |-> <<>>]
    /\ call = SelectCall
    /\ log = {}
    /\ fetched = <<>>
    /\ routes \in PricedRoutes
    /\ result = None
    /\ calc = None
    /\ reply = None
    /\ ui = None

\* lines 68-99 of getBestQuote
SelectBest ==
    /\ result = None
    /\ result' = BuildQuote(call.amountIn, routes)
    /\ UNCHANGED <<mockData, readable, pools, call, log, fetched, routes, calc,
                 reply, ui>>

NextSelect == SelectBest

SpecSelect == InitSelect /\ [][NextSelect]_vars

---------------------------------------------------------------------------
(* What the specification enumerates, for stating the properties.          *)

NoRoutesError == [kind |-> "error", message |-> NO_ROUTES]

HasLiquidity(pool) == pool.reserveA > 0 /\ pool.reserveB > 0

Liquid(allPools) == SelectSeq(allPools, HasLiquidity)

AllLiquid(allPools) == \A k \in 1..Len(allPools) : HasLiquidity(allPools[k])

\* the pool of adapter a for the pair (x, y), or Null
Leg(a, x, y, allPools) == FindDirectPool(x, y, PoolsOf(allPools, a))

MidTokens(from, to) ==
    {commonTokens[k] : k \in 1..Len(commonTokens)} \ {from, to}

\* the two-hop route with leg 1 on adapter a and leg 2 on adapter b
HopCandidate(a, b, from, mid, to, amountIn, allPools) ==
    TwoHopRoute(a, b, Leg(a, from, mid, allPools), Leg(b, mid, to, allPools),
                from, mid, to, amountIn).val

HasLegs(a, b, from, mid, to, allPools) ==
    Leg(a, from, mid, allPools) # Null /\ Leg(b, mid, to, allPools) # Null

\* every candidate: a direct route per adapter, a same-DEX two-hop per
\* adapter and intermediate, a cross-DEX two-hop per ordered pair of
\* distinct adapters and intermediate
AllCandidates(from, to, amountIn, allPools) ==
    {QuoteDirect(a, from, to, amountIn, allPools).val :
        a \in {x \in AdapterNames : Leg(x, from, to, allPools) # Null}}
    \cup
    {HopCandidate(h[1], h[2], from, h[3], to, amountIn, allPools) :
        h \in {g \in AdapterNames \X AdapterNames \X MidTokens(from, to) :
                 HasLegs(g[1], g[2], from, g[3], to, allPools)}}

InRoutes(c) == \E k \in 1..Len(routes) : routes[k] = c

Compared(c) ==
    [label |-> GetRouteLabel(c),
     amountOut |-> UnscaleAmount(c.totalAmountOut, 6),
     routeType |-> c.routeType]

InCompared(c) ==
    \E k \in 1..Len(result.comparedRoutes) : result.comparedRoutes[k] = Compared(c)

\* the last getBestQuote call was made with a positive amount
PositiveCall == call # None /\ ScaleAmount(call.amountIn, 6) > 0

\* the pools the adapters that did not fail hold, in adapter order
Surviving ==
    (IF adapters[1] \in log THEN <<>> ELSE mockData[adapters[1]])
    \o (IF adapters[2] \in log THEN <<>> ELSE mockData[adapters[2]])

---------------------------------------------------------------------------
(* The properties                                                          *)

\* C1: getBestQuote returns the candidate whose totalAmountOut is the
\* greatest of all priced candidates under exact integer comparison, of any
\* magnitude; amountOut, path and routeType are those of that candidate.
C1_ReturnsExactMaximum ==
    (result # None /\ result.kind = "quote") =>
        \E k \in 1..Len(routes) :
            /\ \A j \in 1..Len(routes) :
                  ~WLess(routes[k].totalAmountOut, routes[j].totalAmountOut)
            /\ result.amountOut = UnscaleAmount(routes[k].totalAmountOut, 6)
            /\ result.routeType = routes[k].routeType
            /\ result.path = [s \in 1..Len(routes[k].steps) |->
                                [dex |-> routes[k].steps[s].dex,
                                 from |-> routes[k].steps[s].from,
                                 to |-> routes[k].steps[s].to,
                                 poolId |-> routes[k].steps[s].poolId]]

\* C2: for every adapter and every allowed intermediate for which that
\* adapter holds both legs, the same-DEX two-hop candidate of that adapter
\* is priced, is among the routes compared and appears in comparedRoutes.
C2_EveryAdapterTwoHop ==
    (PositiveCall /\ result.kind = "quote" /\ AllLiquid(fetched)) =>
        \A a \in AdapterNames, mid \in MidTokens(call.from, call.to) :
            HasLegs(a, a, call.from, mid, call.to, fetched) =>
                LET c == HopCandidate(a, a, call.from, mid, call.to,
                                      call.amountIn, fetched)
                IN  InRoutes(c) /\ InCompared(c)

\* C3: for every ordered pair of distinct adapters (i, j) and every allowed
\* intermediate for which i holds the first leg and j the second, the
\* cross-DEX two-hop candidate is priced, is among the routes compared and
\* appears in comparedRoutes.
C3_EveryOrderedPairCrossDex ==
    (PositiveCall /\ result.kind = "quote" /\ AllLiquid(fetched)) =>
        \A a \in AdapterNames, b \in AdapterNames,
           mid \in MidTokens(call.from, call.to) :
            (a # b /\ HasLegs(a, b, call.from, mid, call.to, fetched)) =>
                LET c == HopCandidate(a, b, call.from, mid, call.to,
                                      call.amountIn, fetched)
                IN  InRoutes(c) /\ InCompared(c)

\* C4: with VOI/USDC and USDC/BUIDL pools on both adapters, a quote from
\* VOI to BUIDL returns the maximum over the direct routes, the same-DEX
\* two-hop routes and the cross-DEX two-hop routes via USDC, and
\* comparedRoutes lists all of them, at least 3 entries.
C4_BestOfAllCandidates ==
    (/\ PositiveCall
     /\ call.from = "VOI" /\ call.to = "BUIDL"
     /\ AllLiquid(fetched)
     /\ \A a \in AdapterNames, b \in AdapterNames :
           HasLegs(a, b, "VOI", "USDC", "BUIDL", fetched)) =>
        LET cs == AllCandidates("VOI", "BUIDL", call.amountIn, fetched)
        IN  /\ result.kind = "quote"
            /\ \E c \in cs :
                  /\ \A d \in cs : ~WLess(c.totalAmountOut, d.totalAmountOut)
                  /\ result.amountOut = UnscaleAmount(c.totalAmountOut, 6)
            /\ \A c \in cs : InCompared(c)
            /\ Len(result.comparedRoutes) >= 3

\* C5: a pool with a zero reserve is never priced or selected and never
\* makes getBestQuote fail: the call routes over the remaining pools, and
\* fails with 'No routes found' only if they give no candidate.
C5_ZeroReservePoolIgnored ==
    PositiveCall =>
        LET q == QuoteOver(call.from, call.to, call.amountIn,
                           call.slippageBps, Liquid(fetched))
        IN  routes = q.routes /\ result = q.result

\* C6: when an adapter's fetchPools fails, getBestQuote completes with the
\* pools of the other adapters, the failing one contributing none, and
\* fails only with 'No routes found', when no candidate remains.
C6_FetchFailureIsolated ==
    (PositiveCall /\ log # {}) =>
        /\ fetched = Surviving
        /\ \/ result.kind = "quote"
           \/ /\ result = NoRoutesError
              /\ AllCandidates(call.from, call.to, call.amountIn,
                               Liquid(fetched)) = {}

\* C7: getBestQuote fails with 'No routes found' exactly when no direct,
\* same-DEX two-hop or cross-DEX two-hop candidate could be priced, and
\* returns no Quote then.
C7_NoRoutesExactlyWhenNoCandidate ==
    PositiveCall =>
        (result = NoRoutesError
            <=> AllCandidates(call.from, call.to, call.amountIn,
                              Liquid(fetched)) = {})

\* C8: getAmountOut with reserveIn = 0 or reserveOut = 0 and amountIn > 0
\* fails with an InsufficientLiquidity error and returns no number.
C8_ZeroReserveFails ==
    (/\ calc # None
     /\ calc.amountIn > 0
     /\ (calc.reserveIn = 0 \/ calc.reserveOut = 0)) =>
        ~calc.out.ok /\ calc.out.err = "InsufficientLiquidity"

\* C9: for amountIn >= 0 and positive reserves getAmountOut returns
\* (E * reserveOut) / (reserveIn * 1000 + E), E = amountIn * (1000 -
\* feePct * 10) / 1000, truncated toward zero.
C9_TruncatedQuotient ==
    (calc # None /\ calc.reserveIn > 0 /\ calc.reserveOut > 0) =>
        LET e1000 == calc.amountIn * (1000 - calc.feePct)
        IN  calc.out = Ok((e1000 * calc.reserveOut)
                          \div (calc.reserveIn * 1000 * 1000 + e1000))

\* C10, as amended: for amountIn > 0, positive reserves and 0 <= feePct <=
\* 100, getAmountOut is >= 0 and strictly less than
\* amountIn * reserveOut / reserveIn.
C10_BelowIdealForPositiveAmount ==
    (/\ calc # None
     /\ calc.amountIn > 0 /\ calc.reserveIn > 0 /\ calc.reserveOut > 0) =>
        /\ calc.out.ok
        /\ calc.out.val >= 0
        /\ calc.out.val * calc.reserveIn < calc.amountIn * calc.reserveOut

\* a swap of a positive amount against positive reserves that pays out
C10_Witness ==
    /\ calc # None
    /\ calc.amountIn > 0 /\ calc.reserveIn > 0 /\ calc.reserveOut > 0
    /\ calc.out.ok /\ calc.out.val > 0

\* C10, as stated: for amountIn >= 0, positive reserves and feePct >= 0,
\* getAmountOut is >= 0 and strictly less than
\* amountIn * reserveOut / reserveIn.
C10_BelowIdeal ==
    (/\ calc # None
     /\ calc.amountIn >= 0 /\ calc.reserveIn > 0 /\ calc.reserveOut > 0) =>
        /\ calc.out.ok
        /\ calc.out.val >= 0
        /\ calc.out.val * calc.reserveIn < calc.amountIn * calc.reserveOut

\* C11: getAmountOut with amountIn = 0 returns '0' for any positive
\* reserves and any fee, and raises no error.
C11_ZeroAmountGivesZero ==
    (/\ calc # None
     /\ calc.amountIn = 0 /\ calc.reserveIn > 0 /\ calc.reserveOut > 0) =>
        calc.out = Ok(0)

\* a call with amountIn = 0 against positive reserves, at the full fee
C11_Witness ==
    /\ calc # None
    /\ calc.amountIn = 0 /\ calc.reserveIn > 0 /\ calc.reserveOut > 0
    /\ calc.feePct = 1000
    /\ calc.out.ok

---------------------------------------------------------------------------
(* Integer strings of any length.  A natural is held as its limbs in base  *)
(* 10^3, least significant first, with no leading zero limb; <<>> is 0.    *)
(* A Big with at most DP = 18 decimal places is held as the natural that   *)
(* is its value times 10^18 (six limbs of fraction).                       *)

Radix == 10^3

RECURSIVE NumTrim(_)
NumTrim(x) ==
    IF x # <<>> /\ x[Len(x)] = 0 THEN NumTrim(SubSeq(x, 1, Len(x) - 1)) ELSE x

RECURSIVE NumOf(_)
\* the limbs of a natural below 2^31
NumOf(n) == IF n = 0 THEN <<>> ELSE <<n % Radix>> \o NumOf(n \div Radix)

NumLimb(x, i) == IF i <= Len(x) THEN x[i] ELSE 0

RECURSIVE NumAddFrom(_, _, _, _)
NumAddFrom(x, y, i, carry) ==
    IF i > Len(x) /\ i > Len(y)
    THEN (IF carry = 0 THEN <<>> ELSE <<carry>>)
    ELSE LET sum == NumLimb(x, i) + NumLimb(y, i) + carry
         IN  <<sum % Radix>> \o NumAddFrom(x, y, i + 1, sum \div Radix)

NumAdd(x, y) == NumAddFrom(x, y, 1, 0)

RECURSIVE NumLessFrom(_, _, _)
NumLessFrom(x, y, i) ==
    IF i = 0 THEN FALSE
    ELSE IF x[i] # y[i] THEN x[i] < y[i]
    ELSE NumLessFrom(x, y, i - 1)

NumLess(x, y) ==
    IF Len(x) # Len(y) THEN Len(x) < Len(y) ELSE NumLessFrom(x, y, Len(x))

RECURSIVE NumSubFrom(_, _, _, _)
NumSubFrom(x, y, i, borrow) ==
    IF i > Len(x) THEN <<>>
    ELSE LET diff == x[i] - NumLimb(y, i) - borrow
         IN  IF diff < 0 THEN <<diff + Radix>> \o NumSubFrom(x, y, i + 1, 1)
             ELSE <<diff>> \o NumSubFrom(x, y, i + 1, 0)

\* x - y for x >= y
NumSub(x, y) == NumTrim(NumSubFrom(x, y, 1, 0))

RECURSIVE NumMulFrom(_, _, _, _)
NumMulFrom(x, k, i, carry) ==
    IF i > Len(x) THEN (IF carry = 0 THEN <<>> ELSE <<carry>>)
    ELSE LET prod == x[i] * k + carry
         IN  <<prod % Radix>> \o NumMulFrom(x, k, i + 1, prod \div Radix)

\* x * k for a limb k
NumMulLimb(x, k) == IF k = 0 THEN <<>> ELSE NumMulFrom(x, k, 1, 0)

RECURSIVE NumMul(_, _)
NumMul(x, y) ==
    IF x = <<>> \/ y = <<>> THEN <<>>
    ELSE NumAdd(NumMulLimb(x, y[1]), NumTrim(<<0>> \o NumMul(x, Tail(y))))

\* x * Radix^k
NumShift(x, k) == IF x = <<>> THEN <<>> ELSE [i \in 1..k |-> 0] \o x

RECURSIVE NumQuotLimb(_, _, _, _)
\* the greatest q in lo..hi with d * q <= r
NumQuotLimb(r, d, lo, hi) ==
    IF lo = hi THEN lo
    ELSE LET half == (lo + hi + 1) \div 2
         IN  IF NumLess(r, NumMulLimb(d, half))
             THEN NumQuotLimb(r, d, lo, half - 1)
             ELSE NumQuotLimb(r, d, half, hi)

RECURSIVE NumDivFrom(_, _, _, _)
\* long division, from limb i of n downwards, rem < d carried along
NumDivFrom(n, d, i, rem) ==
    IF i = 0 THEN <<>>
    ELSE LET cur == NumTrim(<<n[i]>> \o rem)
             q   == NumQuotLimb(cur, d, 0, Radix - 1)
             r   == NumSub(cur, NumMulLimb(d, q))
         IN  IF Len(r) >= 0 THEN NumDivFrom(n, d, i - 1, r) \o <<q>> ELSE <<>>

\* the integer quotient of n by d, for d > 0
NumDiv(n, d) == NumTrim(NumDivFrom(n, d, Len(n), <<>>))

RECURSIVE NumValue(_)
\* a natural below 2^31 again
NumValue(x) == IF x = <<>> THEN 0 ELSE x[1] + Radix * NumValue(Tail(x))

\* Big n.div(d) for naturals n and d > 0: DP + 1 decimal places computed,
\* rounded half up to DP = 18 (the seventh limb of fraction decides as its
\* first digit does); the value is held times 10^18
NumBigDiv(n, d) ==
    LET q    == NumDiv(NumShift(n, 7), d)
        kept == IF q = <<>> THEN <<>> ELSE Tail(q)
    IN  IF NumLimb(q, 1) >= 500 THEN NumAdd(kept, <<1>>) ELSE kept

\* toFixed(0) of a value held times 10^18
NumToFixed0(x) ==
    LET ip == IF Len(x) > 6 THEN SubSeq(x, 7, Len(x)) ELSE <<>>
    IN  IF NumLimb(x, 6) >= 500 THEN NumAdd(ip, <<1>>) ELSE ip

\* getAmountOut on integer strings of any length; feePct is held times 10,
\* feeMultiplier, numerator and denominator times 1000
GetAmountOutNum(amountIn, reserveIn, reserveOut, feePct) ==
    LET feeMultiplier   == NumOf(1000 - feePct)
        amountInWithFee == NumMul(amountIn, feeMultiplier)
        numerator       == NumMul(amountInWithFee, reserveOut)
        denominator     == NumAdd(NumShift(reserveIn, 2), amountInWithFee)
    IN  IF denominator = <<>> THEN Throw(DIV_BY_ZERO)
        ELSE Ok(NumToFixed0(NumBigDiv(numerator, denominator)))

\* getPriceImpact on integer strings of any length.  The value returned is
\* priceImpact.mul(100).toNumber(); it is held as the Big priceImpact times
\* 10^18 with its sign, that is the percentage times 10^16.  toNumber takes
\* the nearest double, which keeps the order of two values or merges them.
GetPriceImpactNum(amountIn, reserveIn, reserveOut, feePct) ==
    LET amountOut == GetAmountOutNum(amountIn, reserveIn, reserveOut, feePct)
    IN  IF ~amountOut.ok THEN amountOut
        ELSE IF reserveIn = <<>> \/ amountIn = <<>> THEN Throw(DIV_BY_ZERO)
        ELSE LET midPrice    == NumBigDiv(reserveOut, reserveIn)
                 actualPrice == NumBigDiv(amountOut.val, amountIn)
             IN  IF midPrice = <<>> THEN Throw(DIV_BY_ZERO)
                 ELSE IF NumLess(midPrice, actualPrice)
                 THEN Ok([neg |-> TRUE,
                          mag |-> NumBigDiv(NumSub(actualPrice, midPrice), midPrice)])
                 ELSE Ok([neg |-> FALSE,
                          mag |-> NumBigDiv(NumSub(midPrice, actualPrice), midPrice)])

---------------------------------------------------------------------------
(* math.ts called directly: getPriceImpact, twice against the same pool.   *)
(* Here calc is the sequence of the calls made.                            *)

\* the amounts m * 10^k for m in {1, 2, 5} and k in 0..MaxAmountExp
MaxAmountExp == 7

ImpactAmounts == {NumOf(m * 10^k) : m \in {1, 2, 5}, k \in 0..MaxAmountExp}

\* <<reserveIn, reserveOut>>: 10^12 against 5 * 10^11, and small pools
ImpactPools ==
    {<<NumShift(<<1>>, 4), NumShift(<<500>>, 3)>>,
     <<NumOf(1), NumOf(1)>>, <<NumOf(3), NumOf(7)>>, <<NumOf(200), NumOf(1)>>}

\* feePct 0 and 0.3
ImpactFees == {0, 3}

InitImpact ==
    /\ mockData = [a \in AdapterNames |-> <<>>]
    /\ readable = [a \in AdapterNames |-> TRUE]
    /\ pools = [a \in AdapterNames |-> <<>>]
    /\ call = None
    /\ log = {}
    /\ fetched = <<>>
    /\ routes = <<>>
    /\ result = None
    /\ calc = <<>>
    /\ reply = None
    /\ ui = None

\* a call getPriceImpact(amountIn, reserveIn, reserveOut, feePct); the
\* second call of a run is made with the reserves and fee of the first
CalcGetPriceImpact(amountIn, reserveIn, reserveOut, feePct) ==
    /\ Len(calc) < 2
    /\ calc # <<>> =>
          /\ calc[1].reserveIn = reserveIn
          /\ calc[1].reserveOut = reserveOut
          /\ calc[1].feePct = feePct
    /\ calc' = Append(calc,
                  [fn |-> "getPriceImpact", amountIn |-> amountIn,
                   reserveIn |-> reserveIn, reserveOut |-> reserveOut,
                   feePct |-> feePct,
                   out |-> GetPriceImpactNum(amountIn, reserveIn, reserveOut,
                                             feePct)])
    /\ UNCHANGED <<mockData, readable, pools, call, log, fetched, routes, result,
                   reply, ui>>

NextImpact ==
    \E amountIn \in ImpactAmounts, pool \in ImpactPools, feePct \in ImpactFees :
          CalcGetPriceImpact(amountIn, pool[1], pool[2], feePct)

SpecImpact == InitImpact /\ [][NextImpact]_vars

\* the order of two price impacts
ImpactLess(x, y) ==
    IF x.neg /\ y.neg THEN NumLess(y.mag, x.mag)
    ELSE IF x.neg THEN x.mag # <<>> \/ y.mag # <<>>
    ELSE IF y.neg THEN FALSE
    ELSE NumLess(x.mag, y.mag)

\* 0 and 1 percent
ImpactZero == [neg |-> FALSE, mag |-> <<>>]

ImpactOnePct == [neg |-> FALSE, mag |-> NumShift(<<10>>, 5)]

\* C12: for fixed positive reserves and fee, getPriceImpact is strictly
\* increasing in amountIn: for 0 < a1 < a2 the impact at a1 is less than
\* the impact at a2.
C12_ImpactStrictlyIncreasing ==
    (/\ Len(calc) = 2
     /\ calc[1].reserveIn # <<>> /\ calc[1].reserveOut # <<>>
     /\ calc[1].amountIn # <<>>
     /\ NumLess(calc[1].amountIn, calc[2].amountIn)) =>
        /\ calc[1].out.ok /\ calc[2].out.ok
        /\ ImpactLess(calc[1].out.val, calc[2].out.val)

\* C13: getPriceImpact is non-negative for every amountIn > 0 and positive
\* reserves, and for a trade small relative to the pool (amountIn <=
\* reserveIn / 10^6) it is strictly between 0 and 1 percent.
C13_ImpactSmallAndNonNegative ==
    \A k \in 1..Len(calc) :
        (/\ calc[k].amountIn # <<>>
         /\ calc[k].reserveIn # <<>> /\ calc[k].reserveOut # <<>>) =>
            /\ calc[k].out.ok
            /\ ~ImpactLess(calc[k].out.val, ImpactZero)
            /\ ~NumLess(calc[k].reserveIn, NumShift(calc[k].amountIn, 2)) =>
                  /\ ImpactLess(ImpactZero, calc[k].out.val)
                  /\ ImpactLess(calc[k].out.val, ImpactOnePct)

\* the first half of C13 alone: the impact is never negative
C13_NonNegativePart ==
    \A k \in 1..Len(calc) :
        (/\ calc[k].amountIn # <<>>
         /\ calc[k].reserveIn # <<>> /\ calc[k].reserveOut # <<>>) =>
            calc[k].out.ok /\ ~ImpactLess(calc[k].out.val, ImpactZero)

---------------------------------------------------------------------------
(* math.ts called directly: scaleAmount and unscaleAmount on strings of    *)
(* any length.  A numeric string is [neg, mant, scale], standing for       *)
(* (-1)^neg * mant / 10^scale with mant a natural in limbs; a string Big   *)
(* cannot parse is NotNumeric.                                             *)

SDec(neg, mant, scale) == [neg |-> neg, mant |-> mant, scale |-> scale]

\* 10^k
NumPow10(k) == NumShift(NumOf(10^(k % 3)), k \div 3)

\* scaleAmount: new Big(amount) throws on a string that is no number; mul
\* is exact; toFixed(0) rounds the magnitude half up and writes the sign of
\* a value that was not zero
ScaleAmountNum(amount, decimals) ==
    IF amount = NotNumeric THEN Throw(INVALID_NUMBER)
    ELSE IF amount.scale <= decimals
    THEN Ok(SDec(amount.neg /\ amount.mant # <<>>,
                 NumMul(amount.mant, NumPow10(decimals - amount.scale)), 0))
    ELSE LET cut  == NumPow10(amount.scale - decimals)
             ip   == NumDiv(amount.mant, cut)
             rest == NumSub(amount.mant, NumMul(ip, cut))
         IN  Ok(SDec(amount.neg /\ amount.mant # <<>>,
                     IF NumLess(NumMulLimb(rest, 2), cut) THEN ip
                     ELSE NumAdd(ip, <<1>>), 0))

RECURSIVE NumCanonical(_, _)
\* a Big keeps no trailing zeros, toFixed() writes none
NumCanonical(mant, scale) ==
    IF scale > 0 /\ NumLimb(mant, 1) % 10 = 0
    THEN NumCanonical(NumDiv(mant, <<10>>), scale - 1)
    ELSE [mant |-> mant, scale |-> scale]

\* toFixed(decimals) in place of toFixed(): the trailing zeros are written
UnscaleAmountNum_Padded(amount, decimals) ==
    IF amount = NotNumeric THEN Throw(INVALID_NUMBER)
    ELSE Ok(SDec(amount.neg /\ amount.mant # <<>>, amount.mant, decimals))

\* unscaleAmount of an integer string (scale 0): div keeps DP decimal
\* places, rounding half up beyond them; toFixed() writes the value without
\* trailing zeros, and no sign for zero
UnscaleAmountNum(amount, decimals) ==
    IF amount = NotNumeric THEN Throw(INVALID_NUMBER)
    ELSE LET q == IF decimals <= DP
                  THEN NumCanonical(amount.mant, decimals)
                  ELSE LET cut  == NumPow10(decimals - DP)
                           ip   == NumDiv(amount.mant, cut)
                           rest == NumSub(amount.mant, NumMul(ip, cut))
                       IN  NumCanonical(IF NumLess(NumMulLimb(rest, 2), cut)
                                        THEN ip ELSE NumAdd(ip, <<1>>), DP)
         IN  Ok(SDec(amount.neg /\ q.mant # <<>>, q.mant, q.scale))

\* mantissas 0..MaxMant
MaxMant == 12

\* scales 0..MaxScale
MaxScale == 19

ScaleMants ==
    {NumOf(m) : m \in 0..MaxMant}
    \cup {NumOf(15), NumOf(150), NumOf(1500000), NumOf(123456789),
          NumAdd(NumPow10(21), <<7>>)}

ScaleInputs ==
    {SDec(neg, mant, scale) :
        neg \in BOOLEAN, mant \in ScaleMants, scale \in 0..MaxScale}
    \cup {NotNumeric}

ScaleDecimals == {0, 6, 8, 18}

InitScale ==
    /\ mockData = [a \in AdapterNames |-> <<>>]
    /\ readable = [a \in AdapterNames |-> TRUE]
    /\ pools = [a \in AdapterNames |-> <<>>]
    /\ call = None
    /\ log = {}
    /\ fetched = <<>>
    /\ routes = <<>>
    /\ result = None
    /\ calc = None
    /\ reply = None
    /\ ui = None

\* scaled = scaleAmount(x, decimals), then unscaleAmount(scaled, decimals)
CalcRoundTrip(x, decimals) ==
    LET scaled == ScaleAmountNum(x, decimals)
    IN  /\ calc = None
        /\ calc' = [fn |-> "scaleAmount", x |-> x, decimals |-> decimals,
                    scaled |-> scaled,
                    out |-> IF scaled.ok
                            THEN UnscaleAmountNum(scaled.val, decimals)
                            ELSE scaled]
        /\ UNCHANGED <<mockData, readable, pools, call, log, fetched, routes,
                       result, reply, ui>>

NextScale ==
    \E x \in ScaleInputs, decimals \in ScaleDecimals : CalcRoundTrip(x, decimals)

SpecScale == InitScale /\ [][NextScale]_vars

\* a canonical non-negative decimal string: a number, no sign, no trailing
\* fractional zero
CanonicalInput(x) ==
    /\ x # NotNumeric
    /\ ~x.neg
    /\ x.scale = 0 \/ NumLimb(x.mant, 1) % 10 # 0

---------------------------------------------------------------------------
(* getBestQuote called with an amount that is no number, or a negative one *)

\* amountIn: 'abc' and '-0.0002'
OtherAmountsIn == {NotNumeric, Dec(-2, 4)}

NextAmounts ==
    \/ \E pr \in Pairs, amountIn \in OtherAmountsIn, slippageBps \in SlippageValues :
          GetBestQuote(pr[1], pr[2], amountIn, slippageBps)
    \/ \E a \in AdapterNames : SetReadable(a)

SpecAmounts == Init /\ [][NextAmounts]_vars

InvalidCall ==
    call # None /\ (call.amountIn = NotNumeric \/ call.amountIn.mant < 0)

\* C15: getBestQuote called with a negative or non-numeric amountIn fails
\* with the invalid-amount error, raised before any pool is priced and
\* whatever pools exist; it returns no Quote and does not report that no
\* route was found.
C15_InvalidAmountRejected ==
    InvalidCall =>
        /\ result.kind = "error"
        /\ result.message = INVALID_NUMBER
        /\ routes = <<>>

---------------------------------------------------------------------------
(* Two-hop composition                                                     *)

PoolById(id) == CHOOSE q \in {fetched[i] : i \in 1..Len(fetched)} : q.id = id

\* the hop argument calculateTwoHopAmountOut takes, for a step of a route
HopOf(step) ==
    LET pool     == PoolById(step.poolId)
        reserves == GetPoolReserves(pool, step.from)
    IN  [reserveIn |-> reserves.reserveIn, reserveOut |-> reserves.reserveOut,
         feePct |-> pool.feePct]

TwoHopRoutes == {i \in 1..Len(routes) : routes[i].routeType = "TWO_HOP"}

\* getAmountOut(getAmountOut(a, hop1), hop2), each hop rounded
Composed(amountIn, firstHop, secondHop) ==
    GetAmountOut(GetAmountOut(amountIn, firstHop.reserveIn, firstHop.reserveOut,
                              firstHop.feePct).val,
                 secondHop.reserveIn, secondHop.reserveOut, secondHop.feePct)

---------------------------------------------------------------------------
(* Ties                                                                    *)

PathOf(r) ==
    [s \in 1..Len(r.steps) |->
        [dex |-> r.steps[s].dex, from |-> r.steps[s].from,
         to |-> r.steps[s].to, poolId |-> r.steps[s].poolId]]

\* the candidates no candidate exceeds, under exact comparison
ExactBest ==
    {k \in 1..Len(routes) :
        \A j \in 1..Len(routes) :
            ~WLess(routes[k].totalAmountOut, routes[j].totalAmountOut)}

First(S) == CHOOSE k \in S : \A j \in S : k <= j

\* position of a route in the fixed enumeration order
AdapterIndex(dex) == CHOOSE i \in 1..Len(adapters) : adapters[i] = dex

OrderRank(r) ==
    IF r.routeType = "DIRECT" THEN AdapterIndex(r.steps[1].dex)
    ELSE IF r.steps[1].dex = r.steps[2].dex THEN Len(adapters) + 1
    ELSE Len(adapters) + 2

\* C17: when two or more candidates have exactly equal final output (the
\* greatest), getBestQuote returns the one that comes first in the
\* enumeration order: direct routes in adapter registration order, then
\* same-DEX two-hop routes, then cross-DEX two-hop routes.
C17_TieReturnsFirst ==
    (result # None /\ result.kind = "quote" /\ Cardinality(ExactBest) >= 2) =>
        /\ result.path = PathOf(routes[First(ExactBest)])
        /\ result.routeType = routes[First(ExactBest)].routeType
        /\ \A i, j \in 1..Len(routes) :
              i < j => OrderRank(routes[i]) <= OrderRank(routes[j])

\* what holds: the route returned is the earliest of the candidates whose
\* output equals its own
C17_FirstAmongEqual ==
    (result # None /\ result.kind = "quote") =>
        \E k \in 1..Len(routes) :
            /\ result.path = PathOf(routes[k])
            /\ result.amountOut = UnscaleAmount(routes[k].totalAmountOut, 6)
            /\ \A j \in 1..(k - 1) :
                  routes[j].totalAmountOut # routes[k].totalAmountOut

\* what holds: routes is pushed in the enumeration order
C17_EnumerationOrder ==
    \A i, j \in 1..Len(routes) :
        i < j => OrderRank(routes[i]) <= OrderRank(routes[j])

---------------------------------------------------------------------------
(* Token decimals                                                          *)

\* Token.decimals of the tokens the pools name (pool.tokenA.decimals,
\* pool.tokenB.decimals): BUIDL is a token of 8 decimals
TokenDecimals == [VOI |-> 6, USDC |-> 6, BUIDL |-> 8]

\* C18: getBestQuote scales amountIn to base units with the decimals of the
\* `from` token and unscales the winner's output and every comparedRoutes
\* amountOut with the decimals of the `to` token, whatever the precision of
\* the tokens.
C18_TokenDecimalsUsed ==
    (result # None /\ result.kind = "quote") =>
        LET bestRoute == Reduce(routes, Len(routes))
        IN  /\ \A k \in 1..Len(routes) :
                  routes[k].steps[1].amountIn =
                      Wide(ScaleAmount(call.amountIn, TokenDecimals[call.from]))
            /\ result.amountOut =
                  UnscaleAmount(bestRoute.totalAmountOut, TokenDecimals[call.to])
            /\ \A k \in 1..Len(routes) :
                  result.comparedRoutes[k].amountOut =
                      UnscaleAmount(routes[k].totalAmountOut, TokenDecimals[call.to])

\* what holds: the same with 6 for every token
C18_SixDecimalsUsed ==
    (result # None /\ result.kind = "quote") =>
        LET bestRoute == Reduce(routes, Len(routes))
        IN  /\ \A k \in 1..Len(routes) :
                  routes[k].steps[1].amountIn = Wide(ScaleAmount(call.amountIn, 6))
            /\ result.amountOut = UnscaleAmount(bestRoute.totalAmountOut, 6)
            /\ \A k \in 1..Len(routes) :
                  result.comparedRoutes[k].amountOut =
                      UnscaleAmount(routes[k].totalAmountOut, 6)

---------------------------------------------------------------------------
(* Calls are independent                                                   *)

\* the pool snapshot a call is handed: what the readable files hold, in
\* adapter order
Snapshot ==
    (IF readable[adapters[1]] THEN mockData[adapters[1]] ELSE <<>>)
    \o (IF readable[adapters[2]] THEN mockData[adapters[2]] ELSE <<>>)

\* C19: a getBestQuote call is independent of the calls before it and has
\* no side effect on what the router computes from: it leaves the pools it
\* was handed as they were, and whatever calls came before, its routes and
\* its Quote (or error) are those its arguments and the pool snapshot alone
\* determine, so two calls with the same arguments over the same snapshot
\* return the same Quote.  The adapter list and the intermediate-token list
\* are never assigned after construction.
C19_CallsIndependent ==
    [][ /\ mockData' = mockData
        /\ readable' = readable =>
              LET q == QuoteOver(call'.from, call'.to, call'.amountIn,
                                 call'.slippageBps, Snapshot)
              IN  /\ fetched' = Snapshot
                  /\ routes' = q.routes
                  /\ result' = q.result ]_vars

\* a call answered with a Quote while an adapter that failed this time
\* still holds the pools an earlier call read
C19_Witness ==
    /\ result # None /\ result.kind = "quote"
    /\ \E a \in AdapterNames :
          /\ a \in log
          /\ ~readable[a]
          /\ pools[a] # <<>>
          /\ mockData[a] # <<>>

---------------------------------------------------------------------------
(* apps/api: GET /api/quote.  A query string value is held by what the     *)
(* parsers read from it: the number its longest numeric prefix writes (or  *)
(* none) and whether anything follows that prefix.                         *)

\* an amount string: '' is AmountText(NotNumeric, FALSE), 'abc' is
\* AmountText(NotNumeric, TRUE), '0.001abc' is AmountText(Dec(1, 3), TRUE)
AmountText(num, junk) == [num |-> num, junk |-> junk]

\* a slippageBps string: its leading integer, if it has one
SlipText(hasInt, int, junk) == [hasInt |-> hasInt, int |-> int, junk |-> junk]

NaN == [nan |-> TRUE, val |-> 0]

Number(v) == [nan |-> FALSE, val |-> v]

\* parseFloat(amount); of the value only the sign is read
ParseFloatText(amount) ==
    IF amount.num = NotNumeric THEN NaN
    ELSE Number(IF amount.num.mant > 0 THEN 1
                ELSE IF amount.num.mant < 0 THEN -1 ELSE 0)

\* parseInt(slippageBps)
ParseInt(slippageBps) ==
    IF slippageBps.hasInt THEN Number(slippageBps.int) ELSE NaN

\* the string handed on as amountIn, as new Big reads it
AsAmountIn(amount) ==
    IF amount.junk \/ amount.num = NotNumeric THEN NotNumeric ELSE amount.num

\* !from || !to || !amount: undefined and '' are falsy
MissingParameters(query) ==
    \/ "from" \notin query.present \/ query.from = ""
    \/ "to" \notin query.present \/ query.to = ""
    \/ "amount" \notin query.present
    \/ query.amount = AmountText(NotNumeric, FALSE)

\* isNaN(amountNum) || amountNum <= 0
AmountRejected(amountNum) == amountNum.nan \/ amountNum.val <= 0

\* no upper limit on the slippage
SlippageRejected_NoUpper(slippageNum) == slippageNum.nan \/ slippageNum.val < 0

\* isNaN(slippageNum) || slippageNum < 0 || slippageNum > 10000
SlippageRejected(slippageNum) ==
    slippageNum.nan \/ slippageNum.val < 0 \/ slippageNum.val > 10000

MISSING_PARAMETERS == "Missing required parameters: from, to, amount"

AMOUNT_NOT_POSITIVE == "Amount must be a positive number"

SLIPPAGE_OUT_OF_RANGE == "Slippage must be between 0 and 10000 basis points"

INTERNAL_ERROR == "Internal server error"

Reply(query, status, body) == [query |-> query, status |-> status, body |-> body]

RouterVars == <<pools, call, log, fetched, routes, result>>

\* a request answered before the router is called
Refuse(query, message) ==
    /\ reply' = Reply(query, 400, [error |-> message])
    /\ UNCHANGED RouterVars

\* the handler of GET /quote.  `failure`: the awaited getBestQuote rejects
\* with a value that is no Error.
GetQuote(query, failure) ==
    LET slippageBps == IF "slippageBps" \in query.present
                       THEN query.slippageBps ELSE SlipText(TRUE, 50, FALSE)
        amountNum   == ParseFloatText(query.amount)
        slippageNum == ParseInt(slippageBps)
    IN  /\ IF MissingParameters(query) THEN Refuse(query, MISSING_PARAMETERS)
           ELSE IF AmountRejected(amountNum)
           THEN Refuse(query, AMOUNT_NOT_POSITIVE)
           ELSE IF SlippageRejected(slippageNum)
           THEN Refuse(query, SLIPPAGE_OUT_OF_RANGE)
           ELSE IF failure
           THEN /\ call' = [kind |-> "call", from |-> query.from,
                            to |-> query.to,
                            amountIn |-> AsAmountIn(query.amount),
                            slippageBps |-> slippageNum.val]
                /\ result' = [kind |-> "rejected"]
                /\ reply' = Reply(query, 500, [error |-> INTERNAL_ERROR])
                /\ UNCHANGED <<pools, log, fetched, routes>>
           ELSE /\ RouterCall(query.from, query.to, AsAmountIn(query.amount),
                              slippageNum.val)
                /\ reply' = IF result'.kind = "error"
                            THEN Reply(query, 400, [error |-> result'.message])
                            ELSE Reply(query, 200, result')
        /\ UNCHANGED <<mockData, readable, calc, ui>>

\* amount: 'abc', '0', '-0.0002', '0.001', '0.001abc'
QueryAmounts ==
    {AmountText(NotNumeric, TRUE), AmountText(Dec(0, 0), FALSE),
     AmountText(Dec(-2, 4), FALSE), AmountText(Dec(1, 3), FALSE),
     AmountText(Dec(1, 3), TRUE)}

\* slippageBps: 'abc', '-1', '50.7', '10000', '10001'
QuerySlippages ==
    {SlipText(FALSE, 0, TRUE), SlipText(TRUE, -1, FALSE),
     SlipText(TRUE, 50, TRUE), SlipText(TRUE, 10000, FALSE),
     SlipText(TRUE, 10001, FALSE)}

QueryKeys == {"from", "to", "amount", "slippageBps"}

\* what stands in a query record for a key that is absent
NoAmount == AmountText(NotNumeric, FALSE)

NoSlippage == SlipText(FALSE, 0, FALSE)

\* the query strings sent: each key absent or present, from also as ''
Queries ==
    {q \in [present : SUBSET QueryKeys, from : {"", "VOI"}, to : {"", "USDC"},
            amount : QueryAmounts \cup {NoAmount},
            slippageBps : QuerySlippages \cup {NoSlippage}] :
        /\ "from" \notin q.present => q.from = ""
        /\ "to" \in q.present <=> q.to # ""
        /\ "amount" \in q.present <=> q.amount # NoAmount
        /\ "slippageBps" \in q.present <=> q.slippageBps # NoSlippage}

\* the server starts with a new Router; PACT's file holds no pool and
\* HUMBLE's at most two
InitApi ==
    /\ mockData \in {m \in MockFiles : m.PACT = <<>> /\ Len(m.HUMBLE) <= 2}
    /\ readable = [a \in AdapterNames |-> TRUE]
    /\ pools = [a \in AdapterNames |-> <<>>]
    /\ call = None
    /\ log = {}
    /\ fetched = <<>>
    /\ routes = <<>>
    /\ result = None
    /\ calc = None
    /\ reply = None
    /\ ui = None

NextApi == \E query \in Queries, failure \in BOOLEAN : GetQuote(query, failure)

SpecApi == InitApi /\ [][NextApi]_vars

\* the requests the claim says are refused: from, to or amount missing,
\* amount not parsing to a number > 0, slippageBps not parsing to an
\* integer in 0..10000
ToBeRefused(query) ==
    \/ {"from", "to", "amount"} \ query.present # {}
    \/ query.amount.num = NotNumeric
    \/ query.amount.num.mant <= 0
    \/ /\ "slippageBps" \in query.present
       /\ \/ ~query.slippageBps.hasInt
          \/ query.slippageBps.int \notin 0..10000

\* every key present with a value that is not empty
NothingEmpty(query) ==
    /\ {"from", "to", "amount"} \subseteq query.present
    /\ query.from # "" /\ query.to # ""

\* C20: GET /api/quote answers 400 and does not invoke router.getBestQuote
\* when from, to or amount is missing, when amount does not parse to a
\* number > 0, or when slippageBps does not parse to an integer in
\* 0..10000; slippageBps is 50 when omitted; an Error thrown by the router
\* is answered with 400 and its message, and a failure that is no Error
\* with 500.
C20_QuoteEndpoint ==
    [][ LET query == reply'.query
        IN  /\ ToBeRefused(query) =>
                  /\ reply'.status = 400
                  /\ UNCHANGED RouterVars
            /\ (~ToBeRefused(query) /\ NothingEmpty(query)) =>
                  /\ call'.from = query.from /\ call'.to = query.to
                  /\ "slippageBps" \notin query.present => call'.slippageBps = 50
                  /\ "slippageBps" \in query.present =>
                        call'.slippageBps = query.slippageBps.int
                  /\ result'.kind = "error" =>
                        /\ reply'.status = 400
                        /\ reply'.body = [error |-> result'.message]
                  /\ result'.kind = "rejected" => reply'.status = 500
                  /\ result'.kind = "quote" =>
                        /\ reply'.status = 200
                        /\ reply'.body = result' ]_vars

\* after the router has answered one request with 'No routes found' or a
\* Quote, a request with slippageBps = '10001' is refused
C20_Witness ==
    /\ reply # None
    /\ reply.status = 400
    /\ reply.body = [error |-> SLIPPAGE_OUT_OF_RANGE]
    /\ reply.query.slippageBps.int = 10001
    /\ call # None
    /\ result.kind \in {"error", "quote"}

---------------------------------------------------------------------------
(* The conventional constant-product output                                *)

\* C22: for feePct = 0.3, getAmountOut(amountIn, reserveIn, reserveOut)
\* equals the conventional 0.3%-fee constant-product output
\* (amountIn * 997 * reserveOut) / (reserveIn * 1000 + amountIn * 997), as
\* its code comment states: the integer returned is within one unit of that
\* quotient.
C22_ConventionalFormula ==
    (/\ calc # None
     /\ calc.feePct = 3
     /\ calc.reserveIn > 0 /\ calc.reserveOut > 0) =>
        LET n == calc.amountIn * 997 * calc.reserveOut
            d == calc.reserveIn * 1000 + calc.amountIn * 997
        IN  /\ calc.out.ok
            /\ (calc.out.val - 1) * d < n
            /\ n < (calc.out.val + 1) * d

---------------------------------------------------------------------------
(* The quote and the slippage                                              *)

\* slippageBps: 0, 50 and 10000
SlippageRange == {0, 50, 10000}

\* C30: the Quote returned by getBestQuote does not depend on slippageBps:
\* for the same from, to, amountIn and pool snapshot, any slippageBps in
\* 0..10000 yields the same Quote (amountOut, path, routeType, fees and
\* comparedRoutes) or the same error; applySlippage is applied nowhere.
C30_SlippageIgnored ==
    call # None =>
        \A s \in SlippageRange :
            QuoteOver(call.from, call.to, call.amountIn, s, fetched).result
                = result

\* a Quote that pays something, with two routes compared
C30_Witness ==
    /\ call # None
    /\ result.kind = "quote"
    /\ WLess(Wide(0), result.amountOut.mant)
    /\ Len(result.comparedRoutes) >= 2

---------------------------------------------------------------------------
(* Direction of a pool                                                     *)

\* P': the pool with (tokenA, reserveA) and (tokenB, reserveB) exchanged
Exchanged(pool) ==
    [pool EXCEPT !.tokenA = pool.tokenB, !.tokenB = pool.tokenA,
                 !.reserveA = pool.reserveB, !.reserveB = pool.reserveA]

\* the pool lists with the pools at the positions S exchanged
ExchangedAt(ps, S) ==
    [i \in 1..Len(ps) |-> IF i \in S THEN Exchanged(ps[i]) ELSE ps[i]]

\* C23: direct-pool lookup and pricing are direction-agnostic: whichever
\* pool P of the snapshot is replaced by the pool P' that exchanges
\* (tokenA, reserveA) with (tokenB, reserveB), and also when all are, the
\* same pools are found for (from, to), each hop is priced with reserveIn
\* the reserve of its input token and reserveOut that of its output token,
\* and the routes and the Quote are identical.
C23_DirectionAgnostic ==
    call # None =>
        \A S \in {{i} : i \in 1..Len(fetched)} \cup {1..Len(fetched)} :
            LET q == QuoteOver(call.from, call.to, call.amountIn,
                               call.slippageBps, ExchangedAt(fetched, S))
            IN  /\ q.result = result
                /\ q.routes = routes

\* a Quote whose winning direct route goes through a pool listed the other
\* way round (tokenA is the `to` token), with unequal reserves
C23_Witness ==
    /\ call # None
    /\ result.kind = "quote"
    /\ result.routeType = "DIRECT"
    /\ WLess(Wide(0), result.amountOut.mant)
    /\ \E i \in 1..Len(fetched) :
          /\ fetched[i].id = result.path[1].poolId
          /\ fetched[i].tokenA = call.to
          /\ fetched[i].reserveA # fetched[i].reserveB

---------------------------------------------------------------------------
(* The web page: App.tsx, SwapInterface.tsx, WalletConnectModal.tsx.       *)
(* ui is a record with one field per React state variable, under its name  *)
(* in the source, plus the debounce timer, the calls awaited and what the  *)
(* wallet holds.  null is "" for a string and NoPool for a pool id.  An   *)
(* event handler, the renders it causes and their effects are one step.    *)

NoPool == 0

NoQuote == [kind |-> "null"]

NoTimer == [kind |-> "null"]

Idle == [pc |-> "idle"]

\* tokens.json after the whitelist / pool filter: the default pair and one
\* more token, or a list without the default `from` token '0'
TokenLists == {<<"0", "302190", "7">>, <<"302190", "7">>}

\* parseInt(tokenId)
ParseIntTokenId(tokenId) ==
    CASE tokenId = "0" -> 0
      [] tokenId = "302190" -> 302190
      [] tokenId = "7" -> 7

\* pools.json: two pools for the pair 0 / 302190, a humbleswap pool (the
\* keys of underlyingToWrapped and its wrappedPair) and a nomadex pool
\* (tokA, tokB); one for 0 / 7, listed the other way round; none for
\* 302190 / 7
PoolConfigs ==
    <<[poolId |-> 10, underlying |-> {0, 302190}, tokA |-> 100, tokB |-> 101],
      [poolId |-> 11, underlying |-> {}, tokA |-> 0, tokB |-> 302190],
      [poolId |-> 12, underlying |-> {}, tokA |-> 7, tokB |-> 0]>>

\* the amounts typed; '0' and other values that do not parse to a positive
\* number are refused wherever '' is
Amounts == {"", "1"}

\* the accounts a wallet may come back with
Addresses == {"ADDR1", "ADDR2"}

\* at most MaxRequests quote requests are sent
MaxRequests == 2

ERR_AMOUNT == "Please enter a valid amount"

ERR_TOKENS == "Tokens not loaded"

ERR_TOKEN == "Token not found"

ERR_QUOTE == "Failed to get quote"

ERR_NO_WALLET == "Wallet not connected or no transactions to sign"

ERR_CANCELLED == "Transaction signing was cancelled or failed"

ERR_SWAP == "Failed to sign or submit transactions"

\* useState initial values (App.tsx lines 22-37, SwapInterface.tsx lines
\* 72-79, WalletConnectModal.tsx lines 18-19)
InitialUi ==
    [tokens |-> <<>>, pools |-> <<>>,
     fromToken |-> "0", toToken |-> "302190",
     fromTokenInfo |-> "", toTokenInfo |-> "",
     amount |-> "", availablePools |-> <<>>, selectedPoolId |-> NoPool,
     showWalletModal |-> FALSE,
     quote |-> NoQuote, loading |-> FALSE, error |-> "",
     unsignedTransactions |-> <<>>, swapping |-> FALSE,
     connecting |-> FALSE,
     activeAccount |-> "",
     timer |-> NoTimer, requests |-> {}, issued |-> 0,
     swap |-> Idle, connect |-> Idle, alerts |-> 0]

Has(seq, x) == \E i \in 1..Len(seq) : seq[i] = x

\* !amount || parseFloat(amount) <= 0
InvalidAmount(amount) == amount = ""

\* tokens.filter(token => token.tokenId !== fromToken && ...)
AvailableToTokens(u) == SelectSeq(u.tokens, LAMBDA t : t # u.fromToken)

\* App.handleToTokenChange: the info follows when the token is found
HandleToTokenChange(u, tokenId) ==
    [u EXCEPT !.toToken = tokenId,
              !.toTokenInfo = IF Has(u.tokens, tokenId) THEN tokenId ELSE @]

\* a page without the auto-select effect
AutoSelectEffect_Off(u) == u

\* the auto-select effect of SwapInterface (lines 95-114)
AutoSelectEffect(u) ==
    IF /\ Len(u.tokens) > 0
       /\ Len(AvailableToTokens(u)) > 0
       /\ u.toToken = u.fromToken
    THEN HandleToTokenChange(u, AvailableToTokens(u)[1])
    ELSE u

\* what a handleGetQuote created in the render of u reads when it runs
Closure(u) ==
    [kind |-> "closure", tokens |-> u.tokens, fromToken |-> u.fromToken,
     toToken |-> u.toToken, amount |-> u.amount,
     selectedPoolId |-> u.selectedPoolId, address |-> u.activeAccount]

\* the debounce effect (lines 120-153): the cleanup of the previous run
\* clears the timer, then the body runs on the values just rendered
DebounceEffect(u) ==
    IF InvalidAmount(u.amount)
    THEN [u EXCEPT !.timer = NoTimer, !.quote = NoQuote,
                   !.unsignedTransactions = <<>>]
    ELSE IF u.fromToken = "" \/ u.toToken = "" \/ u.fromToken = u.toToken
    THEN [u EXCEPT !.timer = NoTimer]
    ELSE [u EXCEPT !.timer = Closure(u)]

\* the filter of the available-pools effect (App.tsx lines 146-174)
PoolTrades(pool, fromId, toId) ==
    IF pool.underlying # {}
    THEN {fromId, toId} \subseteq pool.underlying \cup {pool.tokA, pool.tokB}
    ELSE \/ (pool.tokA = fromId /\ pool.tokB = toId)
         \/ (pool.tokA = toId /\ pool.tokB = fromId)

\* the pools of pools.json that trade the pair
MatchingPools(u) ==
    LET fromId == ParseIntTokenId(u.fromTokenInfo)
        toId   == ParseIntTokenId(u.toTokenInfo)
    IN  SelectSeq(u.pools, LAMBDA pool : PoolTrades(pool, fromId, toId))

\* an available-pools effect that leaves the selected pool alone
PoolsEffect_KeepsSelection(u) ==
    IF u.fromTokenInfo = "" \/ u.toTokenInfo = "" \/ Len(u.pools) = 0
    THEN [u EXCEPT !.availablePools = <<>>]
    ELSE [u EXCEPT !.availablePools = MatchingPools(u)]

\* the available-pools effect of App (lines 133-182)
PoolsEffect(u) ==
    IF u.fromTokenInfo = "" \/ u.toTokenInfo = "" \/ Len(u.pools) = 0
    THEN [u EXCEPT !.availablePools = <<>>]
    ELSE LET matchingPools == MatchingPools(u)
         IN  [u EXCEPT !.availablePools = matchingPools,
                       !.selectedPoolId = IF Len(matchingPools) = 1
                                          THEN matchingPools[1].poolId
                                          ELSE NoPool]

\* one commit: the effects whose dependencies differ from the previous
\* render run on the values of this render, the children's first; their
\* state updates make the next render
RunEffects(prev, cur) ==
    LET a == IF <<prev.fromToken, prev.toToken, prev.tokens>>
                  # <<cur.fromToken, cur.toToken, cur.tokens>>
             THEN AutoSelectEffect(cur) ELSE cur
        b == IF <<prev.amount, prev.fromToken, prev.toToken, prev.selectedPoolId>>
                  # <<cur.amount, cur.fromToken, cur.toToken, cur.selectedPoolId>>
             THEN DebounceEffect(cur) ELSE cur
        c == IF <<prev.fromTokenInfo, prev.toTokenInfo, prev.pools>>
                  # <<cur.fromTokenInfo, cur.toTokenInfo, cur.pools>>
             THEN PoolsEffect(cur) ELSE cur
    IN  [cur EXCEPT !.toToken = a.toToken, !.toTokenInfo = a.toTokenInfo,
                    !.timer = b.timer, !.quote = b.quote,
                    !.unsignedTransactions = b.unsignedTransactions,
                    !.availablePools = c.availablePools,
                    !.selectedPoolId = c.selectedPoolId]

RECURSIVE Settle(_, _)
\* renders and effects until no effect has anything left to run
Settle(prev, cur) ==
    LET next == RunEffects(prev, cur)
    IN  IF next = cur THEN cur ELSE Settle(cur, next)

---------------------------------------------------------------------------
(* The handlers                                                            *)

NotUi == <<mockData, readable, pools, call, log, fetched, routes, result, calc,
           reply>>

\* the page is mounted; nothing is loaded yet
InitUi ==
    /\ mockData = [a \in AdapterNames |-> <<>>]
    /\ readable = [a \in AdapterNames |-> TRUE]
    /\ pools = [a \in AdapterNames |-> <<>>]
    /\ call = None
    /\ log = {}
    /\ fetched = <<>>
    /\ routes = <<>>
    /\ result = None
    /\ calc = None
    /\ reply = None
    /\ ui = InitialUi

\* loadConfigs (App.tsx lines 60-127) succeeds: tokens, pools and the
\* default token infos that are found
LoadConfigs(tokenList) ==
    /\ ui.tokens = <<>>
    /\ ui' = Settle(ui, [ui EXCEPT
                !.tokens = tokenList, !.pools = PoolConfigs,
                !.fromTokenInfo = IF Has(tokenList, "0") THEN "0" ELSE @,
                !.toTokenInfo = IF Has(tokenList, "302190") THEN "302190" ELSE @])
    /\ UNCHANGED NotUi

\* the amount input: onAmountChange(e.target.value)
ChangeAmount(amount) ==
    /\ amount # ui.amount
    /\ ui' = Settle(ui, [ui EXCEPT !.amount = amount])
    /\ UNCHANGED NotUi

\* the `from` select: App.handleFromTokenChange
ChangeFromToken(tokenId) ==
    /\ Has(ui.tokens, tokenId)
    /\ tokenId # ui.fromToken
    /\ ui' = Settle(ui, [ui EXCEPT !.fromToken = tokenId,
                                   !.fromTokenInfo = tokenId])
    /\ UNCHANGED NotUi

\* the `to` select, which offers availableToTokens: App.handleToTokenChange
ChangeToToken(tokenId) ==
    /\ Has(AvailableToTokens(ui), tokenId)
    /\ tokenId # ui.toToken
    /\ ui' = Settle(ui, HandleToTokenChange(ui, tokenId))
    /\ UNCHANGED NotUi

\* history: a request still in flight is marked when the direction button is
\* clicked, `previous` telling whether it asks for the direction the click
\* leaves; the code keeps no such mark and nothing reads it but the claims
MarkPrevious(u) ==
    {[r EXCEPT !.previous = (r.fromToken = u.fromToken /\ r.toToken = u.toToken)] :
        r \in u.requests}

\* the swap-direction button: SwapInterface.handleSwapTokens, which calls
\* App.handleSwapTokens and clears the quote
SwapTokens ==
    /\ Len(ui.tokens) > 0
    /\ ui' = Settle(ui, [ui EXCEPT
                !.fromToken = ui.toToken, !.toToken = ui.fromToken,
                !.fromTokenInfo = ui.toTokenInfo,
                !.toTokenInfo = ui.fromTokenInfo,
                !.quote = NoQuote, !.unsignedTransactions = <<>>,
                !.requests = MarkPrevious(ui)])
    /\ UNCHANGED NotUi

\* the pool select, shown when availablePools is not empty
SelectPool(poolId) ==
    /\ \/ poolId = NoPool /\ Len(ui.availablePools) > 0
       \/ \E i \in 1..Len(ui.availablePools) : ui.availablePools[i].poolId = poolId
    /\ poolId # ui.selectedPoolId
    /\ ui' = Settle(ui, [ui EXCEPT !.selectedPoolId = poolId])
    /\ UNCHANGED NotUi

\* the body of the POST /quote request handleGetQuote sends, with the
\* inputs it was built from
Request(id, c) ==
    [id |-> id,
     inputToken |-> ParseIntTokenId(c.fromToken),
     outputToken |-> ParseIntTokenId(c.toToken),
     fromToken |-> c.fromToken, toToken |-> c.toToken, amount |-> c.amount,
     address |-> c.address, poolId |-> c.selectedPoolId, previous |-> FALSE]

\* handleGetQuote up to its first await, run with the closure c on the
\* state u (lines 155-228); a throw before the fetch runs catch and finally
HandleGetQuote(u, c) ==
    LET v == [u EXCEPT !.timer = NoTimer]
    IN  IF InvalidAmount(c.amount) THEN [v EXCEPT !.error = ERR_AMOUNT]
        ELSE IF Len(c.tokens) = 0
        THEN [v EXCEPT !.error = ERR_TOKENS, !.loading = FALSE]
        ELSE IF ~Has(c.tokens, c.fromToken) \/ ~Has(c.tokens, c.toToken)
        THEN [v EXCEPT !.error = ERR_TOKEN, !.loading = FALSE]
        ELSE [v EXCEPT !.loading = TRUE, !.error = "",
                       !.issued = u.issued + 1,
                       !.requests = @ \cup {Request(u.issued + 1, c)}]

\* a click on 'Get Quote' (disabled while loading or without a valid
\* amount) or on 'Get Quote with Transactions' (shown under a quote when
\* the wallet is connected and there is nothing to sign)
ClickGetQuote ==
    /\ \/ ~ui.loading /\ ~InvalidAmount(ui.amount)
       \/ /\ ui.quote # NoQuote
          /\ ui.activeAccount # ""
          /\ ui.unsignedTransactions = <<>>
    /\ ui.issued < MaxRequests
    /\ ui' = Settle(ui, HandleGetQuote(ui, Closure(ui)))
    /\ UNCHANGED NotUi

\* the debounce timer fires after 800 ms and runs the handleGetQuote of the
\* render that set it
TimerFires ==
    /\ ui.timer # NoTimer
    /\ ui.issued < MaxRequests
    /\ ui' = Settle(ui, HandleGetQuote(ui, ui.timer))
    /\ UNCHANGED NotUi

\* what Swap-API answers to a request: a quote for its tokens and amount,
\* and transactions to sign when the request carried an address
QuoteFor(request) == [kind |-> "quote", request |-> request]

TransactionsFor(request) == IF request.address = "" THEN <<>> ELSE <<request>>

\* the fetch of a request returns (lines 229-313): with a quote, or with an
\* error status; finally runs either way
QuoteArrives(request, ok) ==
    /\ request \in ui.requests
    /\ ui' = Settle(ui,
                IF ok
                THEN [ui EXCEPT !.requests = @ \ {request},
                          !.unsignedTransactions = TransactionsFor(request),
                          !.quote = QuoteFor(request),
                          !.loading = FALSE]
                ELSE [ui EXCEPT !.requests = @ \ {request},
                          !.error = ERR_QUOTE,
                          !.loading = FALSE])
    /\ UNCHANGED NotUi

\* 'Connect Wallet', shown under a quote while no wallet is connected
OpenWalletModal ==
    /\ ui.quote # NoQuote /\ ui.activeAccount = ""
    /\ ~ui.showWalletModal
    /\ ui' = [ui EXCEPT !.showWalletModal = TRUE]
    /\ UNCHANGED NotUi

\* the modal's backdrop or close button: onClose
CloseWalletModal ==
    /\ ui.showWalletModal
    /\ ui' = [ui EXCEPT !.showWalletModal = FALSE]
    /\ UNCHANGED NotUi

\* WalletConnectModal.handleWalletClick up to await wallet.connect()
WalletClick ==
    /\ ui.showWalletModal /\ ~ui.connecting
    /\ ui' = [ui EXCEPT !.connecting = TRUE, !.connect = [pc |-> "connecting"]]
    /\ UNCHANGED NotUi

\* wallet.connect() returns with an account (onClose follows) or throws;
\* finally runs either way
ConnectReturns(address) ==
    /\ ui.connect.pc = "connecting"
    /\ ui' = IF address # ""
             THEN [ui EXCEPT !.activeAccount = address,
                             !.showWalletModal = FALSE,
                             !.connecting = FALSE, !.connect = Idle]
             ELSE [ui EXCEPT !.connecting = FALSE, !.connect = Idle]
    /\ UNCHANGED NotUi

\* handleDisconnect, offered under a quote when a wallet is connected
Disconnect ==
    /\ ui.quote # NoQuote /\ ui.activeAccount # ""
    /\ ui' = [ui EXCEPT !.activeAccount = ""]
    /\ UNCHANGED NotUi

\* a click on 'Swap': handleSwap up to await signTransactions (lines
\* 340-374); the button is shown under a quote, enabled when a wallet is
\* connected, there are transactions and no swap is running
ClickSwap ==
    /\ ui.quote # NoQuote
    /\ ~ui.swapping /\ ui.activeAccount # "" /\ ui.unsignedTransactions # <<>>
    /\ ui' = [ui EXCEPT !.swapping = TRUE, !.error = "",
                        !.swap = [pc |-> "signing",
                                  txns |-> ui.unsignedTransactions]]
    /\ UNCHANGED NotUi

\* a handleSwap whose catch also drops the quote and the transactions
SwapFailed_Clears(u, message) ==
    [u EXCEPT !.error = message, !.swapping = FALSE, !.swap = Idle,
              !.quote = NoQuote, !.unsignedTransactions = <<>>]

\* a handleSwap without its finally block
SwapFailed_NoFinally(u, message) ==
    [u EXCEPT !.error = message, !.swap = Idle]

\* catch and finally of handleSwap
SwapFailed(u, message) ==
    [u EXCEPT !.error = message, !.swapping = FALSE, !.swap = Idle]

\* signTransactions returns the signed group, returns nothing, or throws
SignReturns(outcome) ==
    /\ ui.swap.pc = "signing"
    /\ ui' = CASE outcome = "signed" -> [ui EXCEPT !.swap.pc = "submitting"]
               [] outcome = "empty" -> SwapFailed(ui, ERR_CANCELLED)
               [] outcome = "throws" -> SwapFailed(ui, ERR_SWAP)
    /\ UNCHANGED NotUi

\* sendRawTransaction(stxns).do() returns or throws
SubmitReturns(ok) ==
    /\ ui.swap.pc = "submitting"
    /\ ui' = IF ok THEN [ui EXCEPT !.swap.pc = "confirming"]
             ELSE SwapFailed(ui, ERR_SWAP)
    /\ UNCHANGED NotUi

\* waitForConfirmation returns or throws; on success the alert, then the
\* quote, the transactions and the amount are cleared (lines 386-397)
ConfirmReturns(ok) ==
    /\ ui.swap.pc = "confirming"
    /\ ui' = IF ok
             THEN Settle(ui, [ui EXCEPT !.error = "", !.alerts = @ + 1,
                                 !.quote = NoQuote,
                                 !.unsignedTransactions = <<>>,
                                 !.amount = "",
                                 !.swapping = FALSE, !.swap = Idle])
             ELSE SwapFailed(ui, ERR_SWAP)
    /\ UNCHANGED NotUi

NextUi ==
    \/ \E tokenList \in TokenLists : LoadConfigs(tokenList)
    \/ \E amount \in Amounts : ChangeAmount(amount)
    \/ \E tokenId \in {"0", "302190", "7"} : ChangeFromToken(tokenId)
    \/ \E tokenId \in {"0", "302190", "7"} : ChangeToToken(tokenId)
    \/ SwapTokens
    \/ \E i \in 0..Len(PoolConfigs) :
          SelectPool(IF i = 0 THEN NoPool ELSE PoolConfigs[i].poolId)
    \/ ClickGetQuote
    \/ TimerFires
    \/ \E request \in ui.requests, ok \in BOOLEAN : QuoteArrives(request, ok)
    \/ OpenWalletModal
    \/ CloseWalletModal
    \/ WalletClick
    \/ \E address \in Addresses \cup {""} : ConnectReturns(address)
    \/ Disconnect
    \/ ClickSwap
    \/ \E outcome \in {"signed", "empty", "throws"} : SignReturns(outcome)
    \/ \E ok \in BOOLEAN : SubmitReturns(ok)
    \/ \E ok \in BOOLEAN : ConfirmReturns(ok)

SpecUi == InitUi /\ [][NextUi]_vars

---------------------------------------------------------------------------
(* Claims about the swap page                                              *)

\* a step of handleSwap: the click, or one of its awaits returning
SwapStep == ui'.swap # ui.swap

\* the success alert is shown in this step
Alerted == ui'.alerts # ui.alerts

\* C21: handleSwap goes sign, submit, wait for confirmation, report, in
\* that order; the success alert and the clearing of quote,
\* unsignedTransactions and amount happen only in the step in which
\* waitForConfirmation completes, after the signing returned a group and
\* the submission succeeded; a step that fails clears none of them and
\* sets an error.
C21_SwapOrder ==
    [][/\ Alerted => SwapStep /\ ui.swap.pc = "confirming"
       /\ SwapStep =>
            /\ \/ ui.swap.pc = "idle" /\ ui'.swap.pc = "signing"
               \/ ui.swap.pc = "signing" /\ ui'.swap.pc \in {"submitting", "idle"}
               \/ ui.swap.pc = "submitting" /\ ui'.swap.pc \in {"confirming", "idle"}
               \/ ui.swap.pc = "confirming" /\ ui'.swap.pc = "idle"
            /\ Alerted =>
                 /\ ui'.quote = NoQuote
                 /\ ui'.unsignedTransactions = <<>>
                 /\ ui'.amount = ""
                 /\ ui'.error = ""
            /\ ~Alerted =>
                 /\ ui'.quote = ui.quote
                 /\ ui'.unsignedTransactions = ui.unsignedTransactions
                 /\ ui'.amount = ui.amount
            /\ ~Alerted /\ ui.swap.pc # "idle" /\ ui'.swap.pc = "idle" =>
                 ui'.error # ""]_vars

\* a swap went through to the alert, and an error of a failed swap is shown
C21_Witness == ui.alerts > 0

C21_FailedWitness == ui.error = ERR_CANCELLED /\ ui.quote # NoQuote

\* what holds of C24: the click exchanges fromToken and toToken with their
\* infos and leaves no quote and no transactions
C24_ClickClears ==
    [][SwapTokens =>
         /\ ui'.fromToken = ui.toToken /\ ui'.toToken = ui.fromToken
         /\ ui'.fromTokenInfo = ui.toTokenInfo
         /\ ui'.toTokenInfo = ui.fromTokenInfo
         /\ ui'.quote = NoQuote /\ ui'.unsignedTransactions = <<>>]_vars

\* C24: after a click on the swap-direction button no quote and no
\* transaction for the direction the click left is held (so none can be
\* shown, or signed by handleSwap).
C24_NoPreviousDirection ==
    /\ ui.quote # NoQuote => ~ui.quote.request.previous
    /\ \A i \in 1..Len(ui.unsignedTransactions) :
          ~ui.unsignedTransactions[i].previous

\* C24, the use it rules out: handleSwap never hands the wallet
\* transactions of the direction a click left
C24_PreviousNeverSigned ==
    ui.swap.pc # "idle" => \A i \in 1..Len(ui.swap.txns) : ~ui.swap.txns[i].previous

\* the inputs a request was made with are the ones selected in u
MadeWithSelection(request, u) ==
    /\ request.fromToken = u.fromToken
    /\ request.toToken = u.toToken
    /\ request.amount = u.amount
    /\ request.poolId = u.selectedPoolId
    /\ request.address = u.activeAccount

\* C25: whenever handleSwap hands transactions to the wallet, they are the
\* answer to a quote request made with the fromToken, toToken, amount,
\* selectedPoolId and wallet address selected at that moment.
C25_SignsCurrentSelection ==
    [][ClickSwap =>
         \A i \in 1..Len(ui.unsignedTransactions) :
            MadeWithSelection(ui.unsignedTransactions[i], ui)]_vars

\* what a quote request is made with
Selection(u) ==
    <<u.fromToken, u.toToken, u.amount, u.selectedPoolId, u.activeAccount>>

\* C25, second half: a step that changes the selection, other than a click
\* on the direction button, leaves no transactions of the old selection to
\* sign
C25_ChangeDropsTransactions ==
    [][Selection(ui') # Selection(ui) /\ ~SwapTokens =>
         \A i \in 1..Len(ui'.unsignedTransactions) :
            MadeWithSelection(ui'.unsignedTransactions[i], ui')]_vars

\* C26: a response never replaces the quote (and the transactions) of a
\* request issued after its own, so that once every response has arrived
\* the quote held is that of the most recently issued request.
C26_NoLateOverwrite ==
    [][ui.quote # NoQuote /\ ui'.quote # NoQuote /\ ui'.quote # ui.quote =>
         ui'.quote.request.id > ui.quote.request.id]_vars

---------------------------------------------------------------------------
(* The page with external calls that return                                *)

\* the page with two tokens, the initial toToken not among them, and one
\* account
LiveTokenLists == {<<"0", "7">>}

LiveAddresses == {"ADDR1"}

\* the fetch of request number n returns
FetchReturns(n) ==
    \E request \in ui.requests, ok \in BOOLEAN :
        request.id = n /\ QuoteArrives(request, ok)

\* every external call returns: each fetch, signTransactions,
\* sendRawTransaction, waitForConfirmation and wallet.connect
CallsReturn ==
    /\ \A n \in 1..MaxRequests : WF_vars(FetchReturns(n))
    /\ WF_vars(\E outcome \in {"signed", "empty", "throws"} : SignReturns(outcome))
    /\ WF_vars(\E ok \in BOOLEAN : SubmitReturns(ok))
    /\ WF_vars(\E ok \in BOOLEAN : ConfirmReturns(ok))
    /\ WF_vars(\E address \in LiveAddresses \cup {""} : ConnectReturns(address))

NextUiLive ==
    \/ \E tokenList \in LiveTokenLists : LoadConfigs(tokenList)
    \/ \E amount \in Amounts : ChangeAmount(amount)
    \/ \E tokenId \in {"0", "7"} : ChangeFromToken(tokenId)
    \/ \E tokenId \in {"0", "7"} : ChangeToToken(tokenId)
    \/ SwapTokens
    \/ \E i \in 0..Len(PoolConfigs) :
          SelectPool(IF i = 0 THEN NoPool ELSE PoolConfigs[i].poolId)
    \/ ClickGetQuote
    \/ TimerFires
    \/ \E request \in ui.requests, ok \in BOOLEAN : QuoteArrives(request, ok)
    \/ OpenWalletModal
    \/ CloseWalletModal
    \/ WalletClick
    \/ \E address \in LiveAddresses \cup {""} : ConnectReturns(address)
    \/ Disconnect
    \/ ClickSwap
    \/ \E outcome \in {"signed", "empty", "throws"} : SignReturns(outcome)
    \/ \E ok \in BOOLEAN : SubmitReturns(ok)
    \/ \E ok \in BOOLEAN : ConfirmReturns(ok)

SpecUiFair == InitUi /\ [][NextUiLive]_vars /\ CallsReturn

\* request number n is awaiting its response
InFlight(n) == \E request \in ui.requests : request.id = n

\* C27: provided the external calls return, every handleGetQuote that set
\* loading gets its response, and the step that takes it resets loading;
\* loading, swapping and connecting, once set, are reset.
C27_FlagsReset ==
    /\ \A n \in 1..MaxRequests : InFlight(n) ~> ~InFlight(n)
    /\ [][\A n \in 1..MaxRequests :
            InFlight(n) /\ ~InFlight(n)' => ~ui'.loading]_vars
    /\ ui.loading ~> ~ui.loading
    /\ ui.swapping ~> ~ui.swapping
    /\ ui.connecting ~> ~ui.connecting

\* a swap and a wallet connection are both waiting for their external call
C27_Witness == ui.swapping /\ ui.connecting

---------------------------------------------------------------------------
(* Claims about the pool and token selection                               *)

\* the pools of pools.json whose tokens include both tokens of the pair
PoolsOfPair(fromToken, toToken) ==
    {i \in 1..Len(PoolConfigs) :
        LET pool == PoolConfigs[i]
            ids == pool.underlying \cup {pool.tokA, pool.tokB}
        IN  /\ ParseIntTokenId(fromToken) \in ids
            /\ ParseIntTokenId(toToken) \in ids
            /\ pool.underlying = {} => ParseIntTokenId(fromToken) # ParseIntTokenId(toToken)}

\* a quote request was issued in this step
Issued(request) == request \in ui'.requests /\ request.id > ui.issued

C29_DistinctTokens ==
    /\ [](Len(ui.tokens) >= 2 => ui.toToken # ui.fromToken)
    /\ [][\A request \in ui'.requests :
            Issued(request) => request.inputToken # request.outputToken]_vars

\* the from select was set to the token shown in the to select, the effect
\* moved toToken to the first other token, and a request was sent
C29_Witness ==
    /\ ui.tokens = <<"302190", "7">>
    /\ ui.fromToken = "302190" /\ ui.toToken = "7"
    /\ \E request \in ui.requests :
          request.inputToken = 302190 /\ request.outputToken = 7

=============================================================================
